---- MODULE Spec2Model ----
(***************************************************************************)
(* Model of ota-hub-reactjs: the connection registry (MultiDeviceWhisperer),*)
(* the length-prefixed message layer (ProtobufMultiDeviceWhisperer), the    *)
(* Web Serial read loop (SerialMultiDeviceWhisperer.readLoop) and the       *)
(* WebSocket transport (WebsocketMultiDeviceWhisperer).                     *)
(*                                                                         *)
(* Bytes are naturals 0..255, byte arrays are sequences.  JavaScript        *)
(* indices are 0-based; slice/sliceFrom below keep the 0-based arguments    *)
(* of the source and translate to the 1-based sequences of TLA+.            *)
(***************************************************************************)
EXTENDS Integers, Sequences, FiniteSets, TLC

VARIABLES
    connections,   \* registry: uuid -> connection record, or NoConn
    HEADER,        \* message layer: the HEADER prop (a byte sequence)
    buffers,       \* message layer: buffers[uuid], the undecoded bytes
    dispatched,    \* message layer: the handler invocations made, in order
    starts,        \* history: where in the stream the frame of each invocation began
    wire,          \* message layer: wire[uuid], bytes handed to conn.send
    decoded,       \* history: the payloads decodeTX returned a message for
    fed,           \* history: fed[uuid], all bytes given to the receive handler
    whole,         \* history: whole[uuid], fed[uuid] arrived in at most one call
    acct,          \* history: acct[uuid], the bytes that left buffers[uuid] as a
                   \*   decoded frame, an extracted line or a logged garbage skip
    slipReadWrite, \* serial: conn.slipReadWrite of the connection being read
    reading,       \* serial: readLoop is inside its while loop
    readBuffer,    \* serial: readLoop's text accumulator (char codes)
    slipBuffer,    \* serial: readLoop's partial SLIP frame
    inSlipFrame,   \* serial: readLoop is inside a SLIP frame
    escapeNext,    \* serial: the previous byte was ESC
    received,      \* serial: the conn.onReceive calls made, in order
    sfed,          \* history: all bytes the transport has delivered
    swhole,        \* history: they came in one chunk at most
    socks,         \* websocket: the WebSocket objects made by connect, in order
    timers,        \* websocket: the pending setTimeout(connect) callbacks, in order
    apiLeft,       \* bound: calls the application may still make
    sockCap,       \* bound: WebSocket objects the run may make
    hist,          \* history: hist[uuid], what has been asked of the connection
    appended,      \* history: appended[uuid], appendLog calls since the record was made
    returned,      \* registry: what the last addConnection call returned
    refMap,        \* registry: the key order of connectionsRef.current, and whether
                   \*   the last updateConnection call ran its updater
    reconn,        \* websocket: the reconnectAll call in progress
    outcome,       \* serial: the last connect or send call and how it ended
    serial,        \* serial: the Transport object of the connection and the
                   \*   disconnect call that is waiting for it; USB: whether
                   \*   the device is opened, the read loops started, the
                   \*   connect or disconnect call in progress
    liveness       \* liveness monitor: clock, health, watchdog timers, history

pbVars == <<HEADER, buffers, dispatched, starts, wire, decoded, fed, whole, acct>>
slVars == <<slipReadWrite, reading, readBuffer, slipBuffer, inSlipFrame,
            escapeNext, received, sfed, swhole>>
wsVars == <<socks, timers, apiLeft, sockCap, hist>>
rgVars == <<appended, returned, refMap>>
raVars == <<reconn>>
scVars == <<outcome, serial>>
hbVars == <<liveness>>
vars == <<connections, pbVars, slVars, wsVars, rgVars, raVars, scVars, hbVars>>

-----------------------------------------------------------------------------
(* Bounds of the model *)

\* longest byte stream explored exhaustively by the message layer
MaxStream == 5
\* longest payload handed to sendProtobuf
MaxPayload == 2
\* bytes in a buffer handed to tryDecodeLengthPrefixed on its own
MaxFind == 5
\* longest byte stream explored exhaustively by the serial read loop
MaxSerial == 4
\* WebSocket objects made in a run with a single application call
MaxChainSocks == 6
\* application calls, and WebSocket objects, in a run with several calls
MaxApi == 2
MaxApiSocks == 2
\* log lines the application appends in one go
LogBurst == 200
SmallBurst == 50
\* registry calls in a run of the registry on its own, and its largest size
\* bytes the WebSocket sockets of a run deliver to a connection
MaxWsBytes == 6
\* application calls and WebSocket objects in a run with reconnectAll
MaxRaApi == 3
MaxRetrySocks == 12
MaxRaSocks == 2
MaxRegOps == 4
\* touches of a run of the liveness monitor
MaxTouches == 3
\* serial connect, send and disconnect calls in a run
MaxSerialCalls == 4
\* bytes the port delivers in a run of the serial connection's life
MaxSrBytes == 4
\* read loops started in a run of the USB connection's life
MaxUsbLoops == 2
\* assets handed to one handleFlashFirmware call, blocks writeFlash reports
MaxAssets == 2
MaxFlashBlocks == 2
MaxRegistry == 3

-----------------------------------------------------------------------------
(* Generic helpers *)

Min(S) == CHOOSE x \in S : \A y \in S : x <= y

\* Array.prototype.slice(a, b) and slice(a) for 0 <= a
slice(s, a, b) == SubSeq(s, a + 1, IF b > Len(s) THEN Len(s) ELSE b)
sliceFrom(s, a) == SubSeq(s, a + 1, Len(s))

\* Array.prototype.slice(-n): the last n elements
sliceLast(s, n) == IF Len(s) <= n THEN s ELSE SubSeq(s, Len(s) - n + 1, Len(s))

IsPrefix(p, s) == Len(p) <= Len(s) /\ SubSeq(s, 1, Len(p)) = p

SeqsUpTo(S, n) == UNION {[1..k -> S] : k \in 0..n}

-----------------------------------------------------------------------------
(* Registry: MultiDeviceWhisperer *)

Uuids == {"d1"}

NoConn == [present |-> FALSE]

LOG_KEEP == 199

\* a LogLine; the timestamp is left out
LogLine(level, kind, data, n) ==
    [level |-> level, kind |-> kind, data |-> data, n |-> n]

\* ws is the index in socks of the connection's WebSocket, NoWs when undefined
NoWs == 0
NoAttempt == -1

createDefaultInitialDeviceState(uuid) ==
    [present |-> TRUE, uuid |-> uuid, autoConnect |-> TRUE,
     isConnected |-> FALSE, isConnecting |-> FALSE, logs |-> <<>>,
     readBufferLeftover |-> <<>>, ws |-> NoWs, lastAttempt |-> NoAttempt]

getConnection(conns, uuid) == conns[uuid]

\* updateConnection without the test for an absent uuid
updateConnectionUpsert(conns, uuid, updated) == [conns EXCEPT ![uuid] = updated]

\* updateConnection(uuid, updater), with updated the updater's result on
\* the current record conns[uuid]: a no-op when uuid is absent
updateConnection(conns, uuid, updated) ==
    IF conns[uuid].present
    THEN [conns EXCEPT ![uuid] = updated]
    ELSE conns

\* the updater of appendLog with slice(-200) for slice(-199)
appendLogUpdaterKeepsOneMore(c, log) ==
    [c EXCEPT !.logs = Append(sliceLast(c.logs, LOG_KEEP + 1), log)]

\* the updater of appendLog: keep the last 199 lines, then the new one
appendLogUpdater(c, log) == [c EXCEPT !.logs = Append(sliceLast(c.logs, LOG_KEEP), log)]

appendLog(conns, uuid, log) ==
    updateConnection(conns, uuid, appendLogUpdater(conns[uuid], log))

\* addConnection({uuid}) and removeConnection(uuid) of the registry
addConnection(conns, uuid) ==
    [conns EXCEPT ![uuid] = createDefaultInitialDeviceState(uuid)]

\* connectionsRef.current.size
size(conns) == Cardinality({u \in DOMAIN conns : conns[u].present})

\* `unnamed_device_${n}`
UnnamedNames ==
    <<"unnamed_device_0", "unnamed_device_1", "unnamed_device_2", "unnamed_device_3",
      "unnamed_device_4", "unnamed_device_5", "unnamed_device_6", "unnamed_device_7">>
unnamed_device(n) == UnnamedNames[n + 1]

\* uuid ?? `unnamed_device_${connectionsRef.current.size}`: the uuid of an
\* addConnection call that passes none
synthesizedUuid(conns) == unnamed_device(size(conns))

removeConnection(conns, uuid) == [conns EXCEPT ![uuid] = NoConn]

\* the keys of a Map after set(key, value): a key that is present keeps its
\* place, a new key goes last; and after delete(key)
mapSet(order, key) ==
    IF \E i \in 1..Len(order) : order[i] = key THEN order ELSE Append(order, key)
mapDelete(order, key) == SelectSeq(order, LAMBDA k : k # key)

\* the updater of updateConnectionName: ({ ...c, name })
withName(c, name) ==
    [f \in DOMAIN c \cup {"name"} |-> IF f = "name" THEN name ELSE c[f]]

\* Array.from(connectionsRef.current.values())
values(conns, order) == [i \in 1..Len(order) |-> conns[order[i]]]

-----------------------------------------------------------------------------
(* Message layer: ProtobufMultiDeviceWhisperer *)

\* The props of the message layer.  The codec and the handler map belong
\* to the application; the model fixes one of each:
\*   decodeTX throws on a payload whose first byte is BadByte and otherwise
\*   returns the payload as the message, its first byte being the topic
\*   field (no topic on an empty payload); encodeRX is its inverse;
\*   rxTopicHandlerMap has a handler that returns for TopicOk, a handler
\*   that throws for TopicThrows, and no handler for any other topic.
BadByte == 0
TopicOk == 1
TopicThrows == 2
NoTopic == -1
Undefined == -1
NEWLINE == 10

Headers == {<<>>, <<170, 171>>, <<171, 170>>}

NoMsg == [topic |-> NoTopic, body |-> <<>>]

decodeTX(bytes) ==
    IF bytes # <<>> /\ bytes[1] = BadByte
    THEN [ok |-> FALSE, msg |-> NoMsg]
    ELSE [ok |-> TRUE,
          msg |-> [topic |-> IF bytes = <<>> THEN NoTopic ELSE bytes[1],
                   body |-> bytes]]

encodeRX(message) == message.body

HasHandler(topic) == topic \in {TopicOk, TopicThrows}
HandlerThrows(topic) == topic = TopicThrows

concatUint8Arrays(a, b) == a \o b

wrapLengthPrefixed(payload) ==
    concatUint8Arrays(<<(Len(payload) \div 256) % 256, Len(payload) % 256>>,
                      payload)

\* HEADER[idx], undefined past the end of HEADER
HeaderByte(H, idx) == IF idx < Len(H) THEN H[idx + 1] ELSE Undefined

\* findHeader: the first i < buf.length - 1 whose two bytes equal HEADER[0]
\* and HEADER[1], or -1
findHeader(H, buf) ==
    LET hits == {i \in 0..(Len(buf) - 2) :
                    /\ buf[i + 1] = HeaderByte(H, 0)
                    /\ buf[i + 2] = HeaderByte(H, 1)}
    IN  IF hits = {} THEN -1 ELSE Min(hits)

\* tryDecodeLengthPrefixed returns [msg, rest]; found says that msg is not
\* null, threw that the catch branch produced the result
tryDecodeLengthPrefixed(H, buffer0) ==
    LET hl == Len(H)
        headerIndex == IF hl > 0 THEN findHeader(H, buffer0) ELSE 0
        buffer == sliceFrom(buffer0, headerIndex)
        st_msg == hl + 2
        length == buffer[hl + 1] * 256 + buffer[hl + 2]
        d == decodeTX(slice(buffer, st_msg, st_msg + length))
    IN  IF hl > 0 /\ headerIndex = -1
        THEN [found |-> FALSE, msg |-> NoMsg, rest |-> buffer0,
              threw |-> FALSE, used |-> 0]
        ELSE IF Len(buffer) < st_msg
        THEN [found |-> FALSE, msg |-> NoMsg, rest |-> buffer,
              threw |-> FALSE, used |-> 0]
        ELSE IF Len(buffer) < st_msg + length
        THEN [found |-> FALSE, msg |-> NoMsg, rest |-> buffer,
              threw |-> FALSE, used |-> 0]
        ELSE IF d.ok
        THEN [found |-> TRUE, msg |-> d.msg,
              rest |-> sliceFrom(buffer, st_msg + length),
              threw |-> FALSE, used |-> st_msg + length]
        ELSE [found |-> FALSE, msg |-> NoMsg, rest |-> sliceFrom(buffer, 1),
              threw |-> TRUE, used |-> 0]

\* buffer.indexOf(10)
indexOfNewline(buffer) ==
    LET hits == {i \in 0..(Len(buffer) - 1) : buffer[i + 1] = NEWLINE}
    IN  IF hits = {} THEN -1 ELSE Min(hits)

\* buffer.findIndex((_, i) => HEADER.every((h, idx) => buffer[i] + idx === h))
findHeaderIdx(H, buffer) ==
    LET hits == {i \in 0..(Len(buffer) - 1) :
                    \A idx \in 0..(Len(H) - 1) : buffer[i + 1] + idx = H[idx + 1]}
    IN  IF hits = {} THEN -1 ELSE Min(hits)

\* new TextDecoder().decode(bytes) on ASCII bytes and on lone continuation
\* bytes 0x80..0xBF, which decode to U+FFFD one by one
TextDecode(bytes) ==
    [i \in 1..Len(bytes) |-> IF bytes[i] < 128 THEN bytes[i] ELSE 65533]

\* the code points String.prototype.trim removes
IsWhiteSpace(c) ==
    c \in {9, 10, 11, 12, 13, 32, 160, 5760, 8232, 8233, 8239, 8287, 12288, 65279}
      \cup (8192..8202)

trim(text) ==
    LET keep == {i \in 1..Len(text) : ~IsWhiteSpace(text[i])}
    IN  IF keep = {} THEN <<>>
        ELSE SubSeq(text, Min(keep), CHOOSE j \in keep : \A k \in keep : k <= j)

\* dispatchStep with the invocations kept newest first
dispatchStepNewestFirst(uuid, st, r) ==
    LET topic == r.msg.topic
        call == [uuid |-> uuid, topic |-> topic, body |-> r.msg.body]
    IN  [buffer |-> r.rest,
         conns |-> st.conns,
         dispatched |-> IF HasHandler(topic)
                        THEN <<call>> \o st.dispatched ELSE st.dispatched,
         marks |-> IF HasHandler(topic)
                   THEN <<Len(r.rest) + r.used>> \o st.marks ELSE st.marks,
         decoded |-> Append(st.decoded, r.msg.body),
         acct |-> st.acct + r.used]

\* lines 134-156: a decoded message is dispatched to its topic handler.
\* marks holds, for each handler invocation, how far before the end of the
\* bytes received so far the frame of the message began.
dispatchStep(uuid, st, r) ==
    LET topic == r.msg.topic
        call == [uuid |-> uuid, topic |-> topic, body |-> r.msg.body]
    IN  [buffer |-> r.rest,
         conns |-> IF HasHandler(topic)
                   THEN IF HandlerThrows(topic)
                        THEN appendLog(st.conns, uuid,
                                       LogLine(0, "handler-error", <<topic>>, 0))
                        ELSE st.conns
                   ELSE appendLog(st.conns, uuid,
                                  LogLine(1, "unknown-topic", <<topic>>, 0)),
         dispatched |-> IF HasHandler(topic)
                        THEN Append(st.dispatched, call) ELSE st.dispatched,
         marks |-> IF HasHandler(topic)
                   THEN Append(st.marks, Len(r.rest) + r.used) ELSE st.marks,
         decoded |-> Append(st.decoded, r.msg.body),
         acct |-> st.acct + r.used]

\* lines 164-174: a line of text is extracted and logged when not blank
textStep(uuid, st, newlineIdx) ==
    LET line == slice(st.buffer, 0, newlineIdx)
        text == trim(TextDecode(line))
    IN  [st EXCEPT !.buffer = sliceFrom(st.buffer, newlineIdx + 1),
                   !.conns = IF text # <<>>
                             THEN appendLog(st.conns, uuid, LogLine(2, "text", text, 0))
                             ELSE st.conns,
                   !.acct = st.acct + newlineIdx + 1]

\* garbageStep dropping the byte at the header candidate too
garbageStepEatsCandidate(uuid, st, headerIdx) ==
    LET garbage == slice(st.buffer, 0, headerIdx)
    IN  [st EXCEPT !.buffer = sliceFrom(st.buffer, headerIdx + 1),
                   !.conns = appendLog(st.conns, uuid,
                                 LogLine(1, "skipped", slice(garbage, 0, 16),
                                         Len(garbage))),
                   !.acct = st.acct + Len(garbage)]

\* lines 176-191: the bytes before the header candidate are dropped and logged
garbageStep(uuid, st, headerIdx) ==
    LET garbage == slice(st.buffer, 0, headerIdx)
    IN  [st EXCEPT !.buffer = sliceFrom(st.buffer, headerIdx),
                   !.conns = appendLog(st.conns, uuid,
                                 LogLine(1, "skipped", slice(garbage, 0, 16),
                                         Len(garbage))),
                   !.acct = st.acct + Len(garbage)]

\* decodeLoop without the try/catch around the handler call: the exception
\* of a throwing handler ends protoBufOnReceiveHandler
RECURSIVE decodeLoopUncaught(_, _, _)
decodeLoopUncaught(H, uuid, st) ==
    IF Len(st.buffer) = 0 THEN st
    ELSE LET r == tryDecodeLengthPrefixed(H, st.buffer)
             newlineIdx == indexOfNewline(st.buffer)
             headerIdx == findHeaderIdx(H, st.buffer)
         IN  IF r.found /\ HandlerThrows(r.msg.topic)
             THEN [dispatchStep(uuid, st, r) EXCEPT !.conns = st.conns]
             ELSE IF r.found
             THEN decodeLoopUncaught(H, uuid, dispatchStep(uuid, st, r))
             ELSE IF newlineIdx # -1 /\ (headerIdx = -1 \/ newlineIdx < headerIdx)
             THEN decodeLoopUncaught(H, uuid, textStep(uuid, st, newlineIdx))
             ELSE IF headerIdx > 0
             THEN decodeLoopUncaught(H, uuid, garbageStep(uuid, st, headerIdx))
             ELSE st

\* one iteration of the while loop, lines 132-194: kind names the branch
\* taken, "stop" is the break of line 194
decodeStep(H, uuid, st) ==
    LET r == tryDecodeLengthPrefixed(H, st.buffer)
        newlineIdx == indexOfNewline(st.buffer)
        headerIdx == findHeaderIdx(H, st.buffer)
    IN  IF r.found
        THEN [kind |-> "frame", st |-> dispatchStep(uuid, st, r)]
        ELSE IF newlineIdx # -1 /\ (headerIdx = -1 \/ newlineIdx < headerIdx)
        THEN [kind |-> "text", st |-> textStep(uuid, st, newlineIdx)]
        ELSE IF headerIdx > 0
        THEN [kind |-> "garbage", st |-> garbageStep(uuid, st, headerIdx)]
        ELSE [kind |-> "stop", st |-> st]

\* the while loop of protoBufOnReceiveHandler, lines 131-195
RECURSIVE decodeLoop(_, _, _)
decodeLoop(H, uuid, st) ==
    IF Len(st.buffer) = 0 THEN st
    ELSE LET n == decodeStep(H, uuid, st)
         IN  IF n.kind = "stop" THEN st ELSE decodeLoop(H, uuid, n.st)

\* protoBufOnReceiveHandler(uuid, data) for a Uint8Array data: the result
\* holds the new buffers[uuid], registry, handler calls and accounting
protoBufOnReceiveHandler(H, uuid, buf, conns, calls, bytes) ==
    decodeLoop(H, uuid,
               [buffer |-> concatUint8Arrays(buf, bytes), conns |-> conns,
                dispatched |-> calls, marks |-> <<>>, decoded |-> <<>>,
                acct |-> 0])

\* sendProtobuf: the bytes handed to conn.send, nothing when uuid is absent
sendProtobuf(conns, uuid, message) ==
    IF conns[uuid].present THEN wrapLengthPrefixed(encodeRX(message)) ELSE <<>>

-----------------------------------------------------------------------------
(* Inputs of the message layer *)

PbBytes == {0, 1, 10, 170, 171}

\* 10 garbage bytes (neither a header byte nor a newline)
Garbage == [i \in 1..10 |-> 7]

\* the garbage, the header, length 3 and payload [1,2,3]
GarbageResyncInput(H) == Garbage \o H \o <<0, 3>> \o <<1, 2, 3>>

\* a frame for the topic whose handler throws, then one for the other topic
HandlerIsolationInput(H) ==
    H \o <<0, 1, TopicThrows>> \o H \o <<0, 1, TopicOk>>

\* a line of text, then a frame
TextThenFrameInput(H) == <<1, NEWLINE>> \o H \o <<0, 1, TopicOk>>

\* a frame whose 3-byte payload has the byte 0x0A in the middle
NewlineInFrameInput(H) == H \o <<0, 3>> \o <<TopicOk, NEWLINE, TopicThrows>>

Scenarios(H) ==
    {GarbageResyncInput(H), HandlerIsolationInput(H), TextThenFrameInput(H),
     NewlineInFrameInput(H)}

\* the chunks the transport may deliver next: any chunk that keeps the
\* stream within MaxStream bytes, or the next piece of a scenario
NextChunks(H, sofar) ==
    {c \in SeqsUpTo(PbBytes, MaxStream - Len(sofar)) : c # <<>>}
    \cup UNION {{SubSeq(S, Len(sofar) + 1, j) : j \in (Len(sofar) + 1)..Len(S)} :
                    S \in {T \in Scenarios(H) : IsPrefix(sofar, T)}}

\* the messages the application sends: the decodable payloads
Messages ==
    {decodeTX(p).msg : p \in {q \in SeqsUpTo(PbBytes, MaxPayload) : decodeTX(q).ok}}

-----------------------------------------------------------------------------
(* Actions of the message layer *)

WsIdle ==
    /\ socks = <<>>
    /\ timers = <<>>
    /\ apiLeft = 0
    /\ sockCap = 0
    /\ hist = [u \in Uuids |->
                  [manual |-> 0, disc |-> FALSE, removed |-> FALSE, scheduled |-> <<>>,
                   got |-> 0]]

\* no addConnection has returned, no appendLog has been counted
NoReturn == ""

\* the key order is followed in the runs of the registry on its own
NoRefMap == [order |-> <<>>, ran |-> FALSE]

RgIdle ==
    /\ appended = [u \in Uuids |-> 0]
    /\ returned = NoReturn
    /\ refMap = NoRefMap

\* no reconnectAll call is in progress
NoReconn == [active |-> FALSE, snapshot |-> {}, done |-> {}]

RaIdle == reconn = NoReconn

\* no serial connect or send call has been made
NoOutcome == [n |-> 0, op |-> "none", uuid |-> "", failed |-> FALSE, raised |-> FALSE]

\* no Transport has been made, no disconnect call is waiting
NoSerial ==
    [transport |-> "none", closing |-> FALSE, pending |-> "none",
     opened |-> FALSE, loops |-> <<>>, call |-> "none"]

ScIdle == outcome = NoOutcome /\ serial = NoSerial

\* no liveness monitor is running
NoLiveness == [running |-> FALSE]

HbIdle == liveness = NoLiveness

SlIdle ==
    /\ slipReadWrite = FALSE
    /\ reading = FALSE
    /\ readBuffer = <<>>
    /\ slipBuffer = <<>>
    /\ inSlipFrame = FALSE
    /\ escapeNext = FALSE
    /\ received = <<>>
    /\ sfed = <<>>
    /\ swhole = TRUE

PbInit ==
    /\ SlIdle /\ WsIdle /\ RgIdle /\ RaIdle /\ ScIdle /\ HbIdle
    /\ connections = [u \in Uuids |-> createDefaultInitialDeviceState(u)]
    /\ HEADER \in Headers
    /\ buffers = [u \in Uuids |-> <<>>]
    /\ dispatched = <<>>
    /\ starts = <<>>
    /\ wire = [u \in Uuids |-> <<>>]
    /\ decoded = <<>>
    /\ fed = [u \in Uuids |-> <<>>]
    /\ whole = [u \in Uuids |-> TRUE]
    /\ acct = [u \in Uuids |-> 0]

\* Deliver with one buffer for all the connections, kept under the uuid "d1"
DeliverSharedBuffer(uuid, chunk) ==
    LET shared == "d1"
        st == protoBufOnReceiveHandler(HEADER, uuid, buffers[shared], connections,
                                       dispatched, chunk)
    IN  /\ buffers' = [buffers EXCEPT ![shared] = st.buffer]
        /\ connections' = st.conns
        /\ dispatched' = st.dispatched
        /\ starts' = starts \o
              [i \in 1..Len(st.marks) |->
                  [uuid |-> uuid,
                   pos |-> Len(fed[uuid]) + Len(chunk) - st.marks[i]]]
        /\ decoded' = decoded \o st.decoded
        /\ acct' = [acct EXCEPT ![uuid] = @ + st.acct]
        /\ whole' = [whole EXCEPT ![uuid] = (fed[uuid] = <<>>)]
        /\ fed' = [fed EXCEPT ![uuid] = @ \o chunk]

\* conn.onReceive(data) -> protoBufOnReceiveHandler(uuid, data)
Deliver(uuid, chunk) ==
    LET st == protoBufOnReceiveHandler(HEADER, uuid, buffers[uuid], connections,
                                       dispatched, chunk)
    IN  /\ buffers' = [buffers EXCEPT ![uuid] = st.buffer]
        /\ connections' = st.conns
        /\ dispatched' = st.dispatched
        /\ starts' = starts \o
              [i \in 1..Len(st.marks) |->
                  [uuid |-> uuid,
                   pos |-> Len(fed[uuid]) + Len(chunk) - st.marks[i]]]
        /\ decoded' = decoded \o st.decoded
        /\ acct' = [acct EXCEPT ![uuid] = @ + st.acct]
        /\ whole' = [whole EXCEPT ![uuid] = (fed[uuid] = <<>>)]
        /\ fed' = [fed EXCEPT ![uuid] = @ \o chunk]

Receive(uuid) ==
    /\ wire[uuid] = <<>>
    /\ \E chunk \in NextChunks(HEADER, fed[uuid]) : Deliver(uuid, chunk)
    /\ UNCHANGED <<HEADER, wire>>
    /\ UNCHANGED <<slVars, wsVars, rgVars, raVars, scVars, hbVars>>

\* sendProtobuf(uuid, message) on a connection that has received nothing
SendProtobuf(uuid) ==
    /\ fed[uuid] = <<>> /\ wire[uuid] = <<>>
    /\ \E m \in Messages :
          wire' = [wire EXCEPT ![uuid] = sendProtobuf(connections, uuid, m)]
    /\ UNCHANGED <<connections, HEADER, buffers, dispatched, starts, decoded, fed,
                   whole, acct>>
    /\ UNCHANGED <<slVars, wsVars, rgVars, raVars, scVars, hbVars>>

\* the device sends the frame straight back
Echo(uuid) ==
    /\ wire[uuid] # <<>>
    /\ Deliver(uuid, wire[uuid])
    /\ wire' = [wire EXCEPT ![uuid] = <<>>]
    /\ UNCHANGED HEADER
    /\ UNCHANGED <<slVars, wsVars, rgVars, raVars, scVars, hbVars>>

PbNext == \E u \in Uuids : Receive(u) \/ SendProtobuf(u) \/ Echo(u)

PbSpec == PbInit /\ [][PbNext]_vars

-----------------------------------------------------------------------------
(* Properties of the message layer *)

TextLogs(logs) == SelectSeq(logs, LAMBDA l : l.level = 2)
CallsFor(uuid) == SelectSeq(dispatched, LAMBDA c : c.uuid = uuid)

\* the handler applied once, from the state after construction
WholeRun(H, uuid, bytes) ==
    protoBufOnReceiveHandler(H, uuid, <<>>,
        [u \in Uuids |-> createDefaultInitialDeviceState(u)], <<>>, bytes)

\* C1: however the bytes received so far were cut into chunks, the handler
\* calls, the level-2 text lines and buffers[uuid] are those of one call of
\* protoBufOnReceiveHandler on all of them.
C1_ChunkInvariance ==
    \A u \in Uuids :
        LET w == WholeRun(HEADER, u, fed[u])
        IN  /\ CallsFor(u) = w.dispatched
            /\ TextLogs(connections[u].logs) = TextLogs(w.conns[u].logs)
            /\ buffers[u] = w.buffer

\* C2: the handler never returns with a buffered frame that decodeTX rejects
\* still at the head of the buffer: it has dropped a byte and gone on.
C2_NeverStuckOnUndecodable ==
    \A u \in Uuids : ~tryDecodeLengthPrefixed(HEADER, buffers[u]).threw

\* C3: with a 2-byte header, one call on 10 garbage bytes, the header, length
\* 3 and payload [1,2,3] leaves one level-1 log reporting 10 skipped bytes,
\* one handler call for [1,2,3] and an empty buffer.
C3_GarbageResync ==
    \A u \in Uuids :
        (Len(HEADER) = 2 /\ whole[u] /\ fed[u] = GarbageResyncInput(HEADER))
        => /\ connections[u].logs =
                <<LogLine(1, "skipped", Garbage, 10)>>
           /\ dispatched = <<[uuid |-> u, topic |-> 1, body |-> <<1, 2, 3>>]>>
           /\ buffers[u] = <<>>

\* C4: every byte that has left buffers[uuid] belongs to a decoded frame, to
\* an extracted text line or to a logged garbage skip.
C4_NoSilentByteLoss ==
    \A u \in Uuids : Len(fed[u]) = Len(buffers[u]) + acct[u]

\* C5: the bytes sendProtobuf produces for a message, received in one call by
\* a fresh connection under the same HEADER, decode to that one message and
\* leave the buffer empty.
C5_RoundTrip ==
    \A u \in Uuids : \A m \in Messages :
        (whole[u] /\ fed[u] = wrapLengthPrefixed(encodeRX(m)))
        => (decoded = <<m.body>> /\ buffers[u] = <<>>)

HandlerErrors(logs) == SelectSeq(logs, LAMBDA l : l.kind = "handler-error")
ThrowingCalls(calls) == SelectSeq(calls, LAMBDA c : HandlerThrows(c.topic))

\* C7: a throwing handler costs one level-0 log line and nothing else: when
\* protoBufOnReceiveHandler returns, no complete decodable frame is left in
\* the buffer, whatever the handlers of the earlier frames did.
C7_HandlerIsolation ==
    \A u \in Uuids :
        /\ ~tryDecodeLengthPrefixed(HEADER, buffers[u]).found
        /\ Len(HandlerErrors(connections[u].logs)) = Len(ThrowingCalls(CallsFor(u)))
        /\ \A i \in 1..Len(connections[u].logs) :
              connections[u].logs[i].kind = "handler-error"
                  => connections[u].logs[i].level = 0

\* the frame for the throwing topic and the frame after it arrived in one
\* call and both handlers ran
C7_Witness ==
    \E u \in Uuids :
        /\ whole[u] /\ fed[u] = HandlerIsolationInput(HEADER)
        /\ dispatched = <<[uuid |-> u, topic |-> TopicThrows, body |-> <<TopicThrows>>],
                          [uuid |-> u, topic |-> TopicOk, body |-> <<TopicOk>>]>>
        /\ Len(HandlerErrors(connections[u].logs)) = 1

\* the payloads of the frames watched while they arrive
WaitPayloads == {<<TopicOk>>, <<TopicOk, NEWLINE, TopicThrows>>}

\* C26: with a header configured, while the bytes received so far are the
\* header and a part of what follows it in a frame, nothing has been taken
\* from the buffer, logged or dispatched; once they are the whole frame it
\* has been dispatched, also when its payload holds the byte 0x0A.
C26_IncompleteFrameWaits ==
    \A u \in Uuids : \A p \in WaitPayloads :
        LET f == HEADER \o wrapLengthPrefixed(p)
        IN  Len(HEADER) > 0
            => /\ (IsPrefix(fed[u], f) /\ Len(fed[u]) >= Len(HEADER) /\ fed[u] # f)
                  => /\ buffers[u] = fed[u]
                     /\ connections[u].logs = <<>>
                     /\ CallsFor(u) = <<>>
               /\ fed[u] = f
                  => /\ buffers[u] = <<>>
                     /\ CallsFor(u) = <<[uuid |-> u, topic |-> p[1], body |-> p]>>

-----------------------------------------------------------------------------
(* tryDecodeLengthPrefixed on its own, for headers of 1, 2 and 3 bytes *)

AnyHeaders == {<<170>>, <<170, 171>>, <<171, 170>>, <<170, 171, 170>>}

HfBytes == PbBytes \ {NEWLINE}

HfInit ==
    /\ SlIdle /\ WsIdle /\ RgIdle /\ RaIdle /\ ScIdle /\ HbIdle
    /\ connections = [u \in Uuids |-> createDefaultInitialDeviceState(u)]
    /\ HEADER \in AnyHeaders
    /\ buffers = [u \in Uuids |-> <<>>]
    /\ dispatched = <<>>
    /\ starts = <<>>
    /\ wire = [u \in Uuids |-> <<>>]
    /\ decoded = <<>>
    /\ fed = [u \in Uuids |-> <<>>]
    /\ whole = [u \in Uuids |-> TRUE]
    /\ acct = [u \in Uuids |-> 0]

\* tryDecodeLengthPrefixed(buffer) is called once, on some buffer: fed keeps
\* the argument, buffers the bytes returned, decoded the message if there is
\* one
HfTry(uuid) ==
    /\ fed[uuid] = <<>>
    /\ \E b \in SeqsUpTo(HfBytes, MaxFind) \ {<<>>} :
          LET r == tryDecodeLengthPrefixed(HEADER, b)
          IN  /\ fed' = [fed EXCEPT ![uuid] = b]
              /\ buffers' = [buffers EXCEPT ![uuid] = r.rest]
              /\ decoded' = IF r.found THEN <<r.msg.body>> ELSE <<>>
    /\ UNCHANGED <<connections, HEADER, dispatched, starts, wire, whole, acct>>
    /\ UNCHANGED <<slVars, wsVars, rgVars, raVars, scVars, hbVars>>

HfNext == \E u \in Uuids : HfTry(u)

HfSpec == HfInit /\ [][HfNext]_vars

\* the first position of buf at which all the bytes of H follow one
\* another, -1 when there is none
FirstExactMatch(H, buf) ==
    LET hits == {i \in 0..(Len(buf) - Len(H)) : SubSeq(buf, i + 1, i + Len(H)) = H}
    IN  IF hits = {} THEN -1 ELSE Min(hits)

\* C27: the position tryDecodeLengthPrefixed takes for the frame start is
\* the first one where all the header's bytes match; when there is none the
\* buffer is returned whole and no message; and the header position of the
\* text and garbage decisions of protoBufOnReceiveHandler is that same one.
C27_ExactHeaderMatch ==
    \A u \in Uuids :
        LET first == FirstExactMatch(HEADER, fed[u])
        IN  /\ findHeader(HEADER, fed[u]) = first
            /\ first = -1 => (buffers[u] = fed[u] /\ decoded = <<>>)
            /\ findHeaderIdx(HEADER, fed[u]) = first

StartsFor(uuid) == SelectSeq(starts, LAMBDA c : c.uuid = uuid)

\* the bytes of the frame that carries payload: HEADER, the 2-byte length,
\* the payload
FrameOf(H, payload) == H \o wrapLengthPrefixed(payload)

\* C16: for one uuid the handler invocations are those of frames that begin
\* at strictly increasing offsets of the bytes received so far: each
\* invocation carries the payload of the frame at its offset, and an earlier
\* invocation belongs to an earlier frame, however the bytes were chunked.
C16_InOrderDispatch ==
    \A u \in Uuids :
        LET s == StartsFor(u)
            c == CallsFor(u)
        IN  /\ Len(s) = Len(c)
            /\ \A i \in 1..Len(s) :
                  /\ s[i].pos >= 0
                  /\ IsPrefix(FrameOf(HEADER, c[i].body), sliceFrom(fed[u], s[i].pos))
            /\ \A i, j \in 1..Len(s) : i < j => s[i].pos < s[j].pos

\* two frames arrived cut into more than one chunk and both handlers ran,
\* the first frame's first
C16_Witness ==
    \E u \in Uuids :
        /\ ~whole[u] /\ fed[u] = HandlerIsolationInput(HEADER)
        /\ CallsFor(u) = <<[uuid |-> u, topic |-> TopicThrows, body |-> <<TopicThrows>>],
                           [uuid |-> u, topic |-> TopicOk, body |-> <<TopicOk>>]>>
        /\ StartsFor(u) = <<[uuid |-> u, pos |-> 0],
                            [uuid |-> u, pos |-> Len(HEADER) + 3]>>

-----------------------------------------------------------------------------
(* protoBufOnReceiveHandler, one iteration of its while loop at a time:
   buffers[uuid] is assigned on entry and in every branch that continues *)

\* the loop's state at the head of an iteration
LoopOf(uuid) ==
    [buffer |-> buffers[uuid], conns |-> connections, dispatched |-> dispatched,
     marks |-> <<>>, decoded |-> <<>>, acct |-> 0]

\* the branch the next iteration takes
StepKind(uuid) == decodeStep(HEADER, uuid, LoopOf(uuid)).kind

\* line 131 and the break of line 194: the loop goes on
Iterates(uuid) == Len(buffers[uuid]) > 0 /\ StepKind(uuid) # "stop"

DsInit == PbInit

\* lines 123-130: a call begins, the chunk is appended to what was buffered
DsEnter(uuid) ==
    /\ ~Iterates(uuid)
    /\ \E chunk \in NextChunks(HEADER, fed[uuid]) :
          /\ buffers' = [buffers EXCEPT ![uuid] = concatUint8Arrays(@, chunk)]
          /\ whole' = [whole EXCEPT ![uuid] = (fed[uuid] = <<>>)]
          /\ fed' = [fed EXCEPT ![uuid] = @ \o chunk]
    /\ UNCHANGED <<connections, HEADER, dispatched, starts, wire, decoded, acct>>
    /\ UNCHANGED <<slVars, wsVars, rgVars, raVars, scVars, hbVars>>

\* lines 132-193: one iteration that ends in a continue
DsIterate(uuid) ==
    /\ Iterates(uuid)
    /\ LET st == decodeStep(HEADER, uuid, LoopOf(uuid)).st
       IN  /\ buffers' = [buffers EXCEPT ![uuid] = st.buffer]
           /\ connections' = st.conns
           /\ dispatched' = st.dispatched
           /\ starts' = starts \o
                 [i \in 1..Len(st.marks) |->
                     [uuid |-> uuid, pos |-> Len(fed[uuid]) - st.marks[i]]]
           /\ decoded' = decoded \o st.decoded
           /\ acct' = [acct EXCEPT ![uuid] = @ + st.acct]
    /\ UNCHANGED <<HEADER, wire, fed, whole>>
    /\ UNCHANGED <<slVars, wsVars, rgVars, raVars, scVars, hbVars>>

DsNext == \E u \in Uuids : DsEnter(u) \/ DsIterate(u)

DsSpec == DsInit /\ [][DsNext]_vars

SkipLogs(logs) == SelectSeq(logs, LAMBDA l : l.kind = "skipped")

\* C28: an iteration that takes the garbage-skip branch removes k >= 1 bytes
\* from the front of the buffer, appends exactly one log entry, of level 1,
\* whose byte count is k, and keeps the bytes from the header candidate
\* onwards as they were.
C28_GarbageSkipAccounting ==
    [][\A u \in Uuids :
          (Iterates(u) /\ StepKind(u) = "garbage")
          => LET k == Len(buffers[u]) - Len(buffers'[u])
                 logs == connections[u].logs
                 after == connections'[u].logs
             IN  /\ k >= 1
                 /\ Len(after) = Len(logs) + 1
                 /\ SubSeq(after, 1, Len(logs)) = logs
                 /\ after[Len(after)].level = 1
                 /\ after[Len(after)].kind = "skipped"
                 /\ after[Len(after)].n = k
                 /\ buffers'[u] =
                       sliceFrom(buffers[u], findHeaderIdx(HEADER, buffers[u]))
                 /\ dispatched' = dispatched]_vars

\* two bytes were skipped and logged, the header candidate heads the buffer
C28_Witness ==
    \E u \in Uuids :
        /\ buffers[u] = <<170>>
        /\ SkipLogs(connections[u].logs) # <<>>
        /\ SkipLogs(connections[u].logs)[1].n = 2
        /\ Len(fed[u]) = 3

\* C29: every loop iteration that does not stop makes the buffer shorter, so
\* the call terminates; and when the loop has stopped buffers[uuid] is the
\* suffix of the bytes received that is left once the dispatched frames, the
\* extracted lines and the logged garbage skips are taken from the front.
C29_TerminationAndResidue ==
    /\ [][\A u \in Uuids :
             Iterates(u) => Len(buffers'[u]) < Len(buffers[u])]_vars
    /\ [](\A u \in Uuids :
             ~Iterates(u) => buffers[u] = sliceFrom(fed[u], acct[u]))

-----------------------------------------------------------------------------
(* protoBufOnReceiveHandler with two connections receiving in turn *)

IsoUuids == {"d1", "d2"}

\* bytes before a header candidate, then the candidate
GarbageThenCandidate == <<1, 0, 170>>

IsoScenarios(H) ==
    {HandlerIsolationInput(H), TextThenFrameInput(H), NewlineInFrameInput(H),
     GarbageThenCandidate}

\* the next piece of a scenario, cut anywhere
NextIsoChunks(H, sofar) ==
    UNION {{SubSeq(S, Len(sofar) + 1, j) : j \in (Len(sofar) + 1)..Len(S)} :
              S \in {T \in IsoScenarios(H) : IsPrefix(sofar, T)}}

IsoInit ==
    /\ SlIdle /\ WsIdle /\ RgIdle /\ RaIdle /\ ScIdle /\ HbIdle
    /\ connections = [u \in IsoUuids |-> createDefaultInitialDeviceState(u)]
    /\ HEADER \in Headers
    /\ buffers = [u \in IsoUuids |-> <<>>]
    /\ dispatched = <<>>
    /\ starts = <<>>
    /\ wire = [u \in IsoUuids |-> <<>>]
    /\ decoded = <<>>
    /\ fed = [u \in IsoUuids |-> <<>>]
    /\ whole = [u \in IsoUuids |-> TRUE]
    /\ acct = [u \in IsoUuids |-> 0]

\* conn.onReceive(data) of the connection uuid
IsoReceive(uuid) ==
    /\ \E chunk \in NextIsoChunks(HEADER, fed[uuid]) : Deliver(uuid, chunk)
    /\ UNCHANGED <<HEADER, wire>>
    /\ UNCHANGED <<slVars, wsVars, rgVars, raVars, scVars, hbVars>>

IsoNext == \E u \in IsoUuids : IsoReceive(u)

IsoSpec == IsoInit /\ [][IsoNext]_vars

\* the registry with every connection but uuid as it was after construction
AloneConns(uuid) ==
    [u \in IsoUuids |->
        IF u = uuid THEN connections[u] ELSE createDefaultInitialDeviceState(u)]

\* C30: a call for uuid a does what it would do had no other connection ever
\* received anything: its handler invocations, its logs and the new
\* buffers[a] are those of the handler applied to a's own buffer alone, and
\* for every other uuid b the buffer, the logs and the handler invocations
\* stay as they were. Call by call, each uuid therefore ends with the
\* dispatch sequence and the buffer of its own chunks fed alone.
C30_BufferIsolation ==
    [][\A a \in IsoUuids :
          fed'[a] # fed[a]
          => LET chunk == sliceFrom(fed'[a], Len(fed[a]))
                 alone == protoBufOnReceiveHandler(HEADER, a, buffers[a],
                                                   AloneConns(a), <<>>, chunk)
             IN  /\ buffers'[a] = alone.buffer
                 /\ CallsFor(a)' = CallsFor(a) \o alone.dispatched
                 /\ connections'[a] = alone.conns[a]
                 /\ \A b \in IsoUuids \ {a} :
                       /\ buffers'[b] = buffers[b]
                       /\ CallsFor(b)' = CallsFor(b)
                       /\ connections'[b] = connections[b]
                 /\ Len(dispatched') =
                       Len(dispatched) + Len(alone.dispatched)]_vars

\* d1's frame arrived in two pieces around a whole frame of d2, and each
\* handler ran once, d2's first
C30_Witness ==
    /\ Len(HEADER) = 2
    /\ ~whole["d1"] /\ whole["d2"]
    /\ fed["d1"] = NewlineInFrameInput(HEADER)
    /\ fed["d2"] = SubSeq(HandlerIsolationInput(HEADER), 1, Len(HEADER) + 3)
    /\ Len(dispatched) = 2
    /\ dispatched[1].uuid = "d2" /\ dispatched[2].uuid = "d1"
    /\ buffers = [u \in IsoUuids |-> <<>>]

-----------------------------------------------------------------------------
(* Serial transport: readLoop of SerialMultiDeviceWhisperer (Web Serial) *)

END == 192
ESC == 219
ESC_END == 220
ESC_ESC == 221
CR == 13

OnReceive(kind, data) == [kind |-> kind, data |-> data]

\* line.replace(/\r$/, "")
stripCR(line) ==
    IF line # <<>> /\ line[Len(line)] = CR THEN SubSeq(line, 1, Len(line) - 1)
    ELSE line

\* lines 161-167: while the text buffer holds a newline, take the line
\* before it and hand it to onReceive unless it is blank
RECURSIVE takeLines(_)
takeLines(st) ==
    LET newlineIndex == indexOfNewline(st.readBuffer)
        line == stripCR(slice(st.readBuffer, 0, newlineIndex))
    IN  IF newlineIndex >= 0
        THEN takeLines([st EXCEPT
                 !.readBuffer = sliceFrom(st.readBuffer, newlineIndex + 1),
                 !.received = IF trim(line) # <<>>
                              THEN Append(st.received, OnReceive("line", line))
                              ELSE st.received])
        ELSE st

\* lines 130-138 with the reset the USB-CDC variant of the loop has after
\* the escape: the partial frame is emptied on every escaped byte
slipEscapedResets(st, b) ==
    [st EXCEPT !.slipBuffer = <<>>, !.escapeNext = FALSE]

\* lines 130-138: the byte after ESC
slipEscaped(st, b) ==
    IF b = ESC_END
    THEN [st EXCEPT !.slipBuffer = Append(st.slipBuffer, END), !.escapeNext = FALSE]
    ELSE IF b = ESC_ESC
    THEN [st EXCEPT !.slipBuffer = Append(st.slipBuffer, ESC), !.escapeNext = FALSE]
    ELSE [st EXCEPT !.slipBuffer = <<>>, !.inSlipFrame = FALSE,
                    !.escapeNext = FALSE]

\* the for loop body with a newline taken as text also inside a frame
readByteNewlineIsText(st, b) ==
    IF st.inSlipFrame /\ b # NEWLINE
    THEN IF b = END
         THEN [st EXCEPT
                 !.received = IF Len(st.slipBuffer) > 0
                              THEN Append(st.received, OnReceive("slip", st.slipBuffer))
                              ELSE st.received,
                 !.slipBuffer = <<>>,
                 !.inSlipFrame = FALSE,
                 !.escapeNext = FALSE]
         ELSE IF st.escapeNext THEN slipEscaped(st, b)
         ELSE IF b = ESC THEN [st EXCEPT !.escapeNext = TRUE]
         ELSE [st EXCEPT !.slipBuffer = Append(st.slipBuffer, b)]
    ELSE IF b = END /\ st.slipReadWrite
    THEN [st EXCEPT !.inSlipFrame = TRUE, !.slipBuffer = <<>>, !.escapeNext = FALSE]
    ELSE takeLines([st EXCEPT !.readBuffer = Append(st.readBuffer, b)])

\* lines 108-167: the body of the for loop for one byte b
readByte(st, b) ==
    IF st.inSlipFrame
    THEN IF b = END
         THEN [st EXCEPT
                 !.received = IF Len(st.slipBuffer) > 0
                              THEN Append(st.received, OnReceive("slip", st.slipBuffer))
                              ELSE st.received,
                 !.slipBuffer = <<>>,
                 !.inSlipFrame = FALSE,
                 !.escapeNext = FALSE]
         ELSE IF st.escapeNext THEN slipEscaped(st, b)
         ELSE IF b = ESC THEN [st EXCEPT !.escapeNext = TRUE]
         ELSE [st EXCEPT !.slipBuffer = Append(st.slipBuffer, b)]
    ELSE IF b = END /\ st.slipReadWrite
    THEN [st EXCEPT !.inSlipFrame = TRUE, !.slipBuffer = <<>>, !.escapeNext = FALSE]
    ELSE takeLines([st EXCEPT !.readBuffer = Append(st.readBuffer, b)])

\* lines 107-168: the for loop over one chunk
RECURSIVE readBytes(_, _)
readBytes(st, bytes) ==
    IF bytes = <<>> THEN st
    ELSE readBytes(readByte(st, bytes[1]), sliceFrom(bytes, 1))

\* the loop variables with the SLIP state declared inside the while loop:
\* every chunk starts outside a frame
LoopStatePerChunk ==
    [slipReadWrite |-> slipReadWrite, readBuffer |-> readBuffer,
     slipBuffer |-> <<>>, inSlipFrame |-> FALSE,
     escapeNext |-> FALSE, received |-> received]

\* the loop variables, declared before the while loop (lines 93-96)
LoopState ==
    [slipReadWrite |-> slipReadWrite, readBuffer |-> readBuffer,
     slipBuffer |-> slipBuffer, inSlipFrame |-> inSlipFrame,
     escapeNext |-> escapeNext, received |-> received]

SlBytes == {END, ESC, ESC_END, ESC_ESC, 97, NEWLINE}

\* C0 61 62 DB DC 63 C0
SlipExample == <<END, 97, 98, ESC, ESC_END, 99, END>>

\* C0 61 DB 62 C0, a frame with a byte other than DC or DD after DB, then
\* the frame C0 63 C0
ViolationExample == <<END, 97, ESC, 98, END, END, 99, END>>

\* two delimiters, then 61 62 and a delimiter
DoubleDelimiterExample == <<END, END, 97, 98, END>>

\* a line of text, then a frame, then a line of text
TextAndFrameExample == <<97, NEWLINE, END, 98, NEWLINE, END, 99, NEWLINE>>

SerialScenarios ==
    {SlipExample, ViolationExample, DoubleDelimiterExample, TextAndFrameExample}

\* the chunks the transport may deliver next: any chunk that keeps the
\* stream within MaxSerial bytes, or the next piece of a scenario
NextSerialChunks(sofar) ==
    {c \in SeqsUpTo(SlBytes, MaxSerial - Len(sofar)) : c # <<>>}
    \cup UNION {{SubSeq(S, Len(sofar) + 1, j) : j \in (Len(sofar) + 1)..Len(S)} :
                    S \in {T \in SerialScenarios : IsPrefix(sofar, T)}}

PbIdle ==
    /\ HEADER = <<>>
    /\ buffers = [u \in Uuids |-> <<>>]
    /\ dispatched = <<>>
    /\ starts = <<>>
    /\ wire = [u \in Uuids |-> <<>>]
    /\ decoded = <<>>
    /\ fed = [u \in Uuids |-> <<>>]
    /\ whole = [u \in Uuids |-> TRUE]
    /\ acct = [u \in Uuids |-> 0]

\* readLoop(uuid, transport) has been entered: lines 90-99
SlInit ==
    /\ PbIdle /\ WsIdle /\ RgIdle /\ RaIdle /\ ScIdle /\ HbIdle
    /\ connections = [u \in Uuids |->
          [createDefaultInitialDeviceState(u) EXCEPT !.isConnected = TRUE]]
    /\ slipReadWrite \in BOOLEAN
    /\ reading = TRUE
    /\ readBuffer = <<>>
    /\ slipBuffer = <<>>
    /\ inSlipFrame = FALSE
    /\ escapeNext = FALSE
    /\ received = <<>>
    /\ sfed = <<>>
    /\ swhole = TRUE

\* one turn of the while loop: reader.next() yields a chunk
ReadChunk(uuid) ==
    /\ reading
    /\ \E chunk \in NextSerialChunks(sfed) :
          LET st == readBytes(LoopState, chunk)
          IN  /\ readBuffer' = st.readBuffer
              /\ slipBuffer' = st.slipBuffer
              /\ inSlipFrame' = st.inSlipFrame
              /\ escapeNext' = st.escapeNext
              /\ received' = st.received
              /\ sfed' = sfed \o chunk
              /\ swhole' = (sfed = <<>>)
    /\ UNCHANGED <<connections, slipReadWrite, reading>>
    /\ UNCHANGED <<pbVars, wsVars, rgVars, raVars, scVars, hbVars>>

\* reader.next() reports done: the loop breaks and the finally block runs
\* (lines 103, 176-188)
ReadDone(uuid) ==
    /\ reading
    /\ reading' = FALSE
    /\ connections' =
          appendLog(updateConnection(connections, uuid,
                        [connections[uuid] EXCEPT !.isConnected = FALSE,
                                                  !.isConnecting = FALSE,
                                                  !.autoConnect = FALSE]),
                    uuid, LogLine(0, "serial-disconnected", <<>>, 0))
    /\ UNCHANGED <<slipReadWrite, readBuffer, slipBuffer, inSlipFrame, escapeNext,
                   received, sfed, swhole>>
    /\ UNCHANGED <<pbVars, wsVars, rgVars, raVars, scVars, hbVars>>

SlNext == \E u \in Uuids : ReadChunk(u) \/ ReadDone(u)

SlSpec == SlInit /\ [][SlNext]_vars

\* C6: with slipReadWrite on, C0 61 62 DB DC 63 C0 gives one onReceive call
\* with [61,62,C0,63], however it was chunked; and inside a frame the byte
\* after DB appends C0 (for DC) or DB (for DD) to the partial frame, whose
\* earlier bytes stay.
C6_SlipDecode ==
    /\ []((slipReadWrite /\ sfed = SlipExample)
            => received = <<OnReceive("slip", <<97, 98, END, 99>>)>>)
    /\ [][\A b \in {ESC_END, ESC_ESC} :
            (sfed' = Append(sfed, b) /\ inSlipFrame /\ escapeNext)
            => /\ slipBuffer' = Append(slipBuffer, IF b = ESC_END THEN END ELSE ESC)
               /\ inSlipFrame' /\ ~escapeNext'
               /\ received' = received]_vars

\* the example has been read with slipReadWrite on and handed to onReceive
\* as one frame, and the loop has ended
C6_Witness ==
    /\ slipReadWrite /\ sfed = SlipExample /\ ~reading
    /\ received = <<OnReceive("slip", <<97, 98, END, 99>>)>>

\* readLoop run on all the bytes as one chunk, from its initial state
WholeRead(bytes) ==
    readBytes([slipReadWrite |-> slipReadWrite, readBuffer |-> <<>>,
               slipBuffer |-> <<>>, inSlipFrame |-> FALSE,
               escapeNext |-> FALSE, received |-> <<>>], bytes)

\* C21: however the bytes read so far were cut into chunks, the onReceive
\* calls made, in order, are those of the loop run on all of them as one
\* chunk, and so are the text buffer and the SLIP state.
C21_SerialChunkInvariance ==
    LET w == WholeRead(sfed)
    IN  /\ received = w.received
        /\ readBuffer = w.readBuffer
        /\ slipBuffer = w.slipBuffer
        /\ inSlipFrame = w.inSlipFrame
        /\ escapeNext = w.escapeNext

\* a line, a frame and another line came in more than one chunk and were
\* all handed to onReceive
C21_Witness ==
    /\ slipReadWrite /\ sfed = TextAndFrameExample /\ ~swhole
    /\ received = <<OnReceive("line", <<97>>), OnReceive("slip", <<98, NEWLINE>>),
                    OnReceive("line", <<99>>)>>

\* C23: when a byte other than DC or DD follows DB inside a frame, the
\* partial frame is dropped and the loop is outside a frame; of C0 61 DB 62
\* C0 followed by C0 63 C0 the first frame is never handed to onReceive and
\* the second is, as the one payload [63].
C23_SlipViolation ==
    /\ [][\A b \in SlBytes \ {END, ESC_END, ESC_ESC} :
            (sfed' = Append(sfed, b) /\ inSlipFrame /\ escapeNext)
            => (slipBuffer' = <<>> /\ ~inSlipFrame' /\ received' = received)]_vars
    /\ []((slipReadWrite /\ sfed = ViolationExample)
            => received = <<OnReceive("slip", <<99>>)>>)

\* C24: a delimiter read inside a frame whose partial buffer is empty hands
\* nothing to onReceive and leaves the loop inside the frame; of C0 C0 61 62
\* C0 the bytes 61 62 are handed over as one frame.
C24_EmptyFrameDelimiter ==
    /\ [][(sfed' = Append(sfed, END) /\ inSlipFrame /\ slipBuffer = <<>>
              /\ ~escapeNext)
            => (received' = received /\ inSlipFrame')]_vars
    /\ []((slipReadWrite /\ sfed = DoubleDelimiterExample)
            => received = <<OnReceive("slip", <<97, 98>>)>>)

TextLines(calls) == SelectSeq(calls, LAMBDA c : c.kind = "line")

\* C25: while the loop is inside a frame, no byte it reads changes the text
\* buffer or adds a text line to the onReceive calls.
C25_SlipGovernsInFrame ==
    inSlipFrame
    => \A b \in SlBytes :
          LET n == readByte(LoopState, b)
          IN  /\ n.readBuffer = readBuffer
              /\ TextLines(n.received) = TextLines(received)

\* inside a frame, with text waiting in the text buffer and a newline among
\* the frame's bytes
C25_Witness ==
    /\ inSlipFrame /\ readBuffer # <<>>
    /\ \E i \in 1..Len(slipBuffer) : slipBuffer[i] = NEWLINE

-----------------------------------------------------------------------------
(* USB-CDC transport: the polling readLoop of the UsbTransport variant *)

\* lines 593-598: the byte after ESC; the push is followed by the reset of
\* the partial frame, whatever the byte
usbSlipEscaped(st, b) ==
    LET pushed == IF b = ESC_END THEN Append(st.slipBuffer, END)
                  ELSE IF b = ESC_ESC THEN Append(st.slipBuffer, ESC)
                  ELSE st.slipBuffer
        reset == SubSeq(pushed, 1, 0)
    IN  [st EXCEPT !.slipBuffer = reset, !.escapeNext = FALSE]

\* lines 581-622: the body of the for loop for one byte b
usbReadByte(st, b) ==
    IF st.inSlipFrame
    THEN IF b = END
         THEN [st EXCEPT
                 !.received = IF Len(st.slipBuffer) > 0
                              THEN Append(st.received, OnReceive("slip", st.slipBuffer))
                              ELSE st.received,
                 !.slipBuffer = <<>>,
                 !.inSlipFrame = FALSE,
                 !.escapeNext = FALSE]
         ELSE IF st.escapeNext THEN usbSlipEscaped(st, b)
         ELSE IF b = ESC THEN [st EXCEPT !.escapeNext = TRUE]
         ELSE [st EXCEPT !.slipBuffer = Append(st.slipBuffer, b)]
    ELSE IF b = END /\ st.slipReadWrite
    THEN [st EXCEPT !.inSlipFrame = TRUE, !.slipBuffer = <<>>]
    ELSE takeLines([st EXCEPT !.readBuffer = Append(st.readBuffer, b)])

\* the for loop over the bytes of one transport.read(64)
RECURSIVE usbReadBytes(_, _)
usbReadBytes(st, bytes) ==
    IF bytes = <<>> THEN st
    ELSE usbReadBytes(usbReadByte(st, bytes[1]), sliceFrom(bytes, 1))

\* readLoop(uuid, transport) of the USB variant has been entered
UsInit == SlInit

\* one turn of the polling loop that read some bytes
UsbReadChunk(uuid) ==
    /\ reading
    /\ \E chunk \in NextSerialChunks(sfed) :
          LET st == usbReadBytes(LoopState, chunk)
          IN  /\ readBuffer' = st.readBuffer
              /\ slipBuffer' = st.slipBuffer
              /\ inSlipFrame' = st.inSlipFrame
              /\ escapeNext' = st.escapeNext
              /\ received' = st.received
              /\ swhole' = (sfed = <<>>)
              /\ sfed' = sfed \o chunk
    /\ UNCHANGED <<connections, slipReadWrite, reading>>
    /\ UNCHANGED <<pbVars, wsVars, rgVars, raVars, scVars, hbVars>>

\* transport.device.opened is false: the while loop ends
UsbClosed(uuid) ==
    /\ reading
    /\ reading' = FALSE
    /\ UNCHANGED <<connections, slipReadWrite, readBuffer, slipBuffer, inSlipFrame,
                   escapeNext, received, sfed, swhole>>
    /\ UNCHANGED <<pbVars, wsVars, rgVars, raVars, scVars, hbVars>>

UsNext == \E u \in Uuids : UsbReadChunk(u) \/ UsbClosed(u)

UsSpec == UsInit /\ [][UsNext]_vars

\* C22: in the USB-CDC loop, inside a frame the byte after DB appends C0
\* (for DC) or DB (for DD) to the partial frame and keeps the bytes before
\* it, so that C0 61 62 DB DC 63 C0 hands [61,62,C0,63] to onReceive.
C22_UsbSlipEscapes ==
    /\ [][\A b \in {ESC_END, ESC_ESC} :
            (sfed' = Append(sfed, b) /\ inSlipFrame /\ escapeNext)
            => slipBuffer' = Append(slipBuffer, IF b = ESC_END THEN END ELSE ESC)]_vars
    /\ []((slipReadWrite /\ sfed = SlipExample)
            => received = <<OnReceive("slip", <<97, 98, END, 99>>)>>)

-----------------------------------------------------------------------------
(* Serial transport, connect and send: SerialMultiDeviceWhisperer.  A
   connection has a port from addConnection on; transport is the esptool-js
   Transport of the connection, NoTransport when null.  Each call is taken
   whole, up to the point where connect enters readLoop. *)

ScUuids == {"d1", "d2"}

NoTransport == "none"

\* the record addConnection makes for a serial connection
createInitialSerialState(uuid) ==
    LET c == createDefaultInitialDeviceState(uuid)
    IN  [f \in DOMAIN c \cup {"transport"} |->
            IF f = "transport" THEN NoTransport ELSE c[f]]

\* disconnect(uuid), lines 258-283: an error of transport.disconnect is
\* caught, the state is reset in every case
serialDisconnect(conns, uuid) ==
    updateConnection(conns, uuid,
        [conns[uuid] EXCEPT !.transport = NoTransport, !.isConnected = FALSE,
                            !.isConnecting = FALSE, !.autoConnect = FALSE])

\* connect(uuid), lines 206-256; fails says that transport.connect or
\* restartDevice threw, which the catch block handles
serialConnect(conns, uuid, fails) ==
    LET conn == getConnection(conns, uuid)
        conns1 == IF conn.transport = NoTransport
                  THEN serialDisconnect(conns, uuid) ELSE conns
        conns2 == updateConnection(conns1, uuid,
                      [conns1[uuid] EXCEPT !.isConnecting = TRUE])
        opened == appendLog(
                      updateConnection(conns2, uuid,
                          [conns2[uuid] EXCEPT !.transport = "open",
                                               !.isConnected = TRUE,
                                               !.isConnecting = FALSE]),
                      uuid, LogLine(2, "serial-connected", <<>>, 0))
        caught == serialDisconnect(
                      appendLog(
                          updateConnection(conns2, uuid,
                              [conns2[uuid] EXCEPT !.isConnected = FALSE,
                                                   !.isConnecting = FALSE]),
                          uuid, LogLine(0, "serial-connection-error", <<>>, 0)),
                      uuid)
    IN  IF ~conn.present THEN [conns |-> conns, failed |-> FALSE, raised |-> FALSE]
        ELSE IF fails THEN [conns |-> caught, failed |-> TRUE, raised |-> FALSE]
        ELSE [conns |-> opened, failed |-> FALSE, raised |-> FALSE]

\* defaultSend(uuid, data), lines 69-87; fails says that transport.write
\* rejected: nothing catches the rejection, which is the result of the call
serialDefaultSend(conns, uuid, fails) ==
    LET conn == getConnection(conns, uuid)
        conns1 == appendLog(conns, uuid, LogLine(3, "sent", <<>>, 0))
    IN  IF ~conn.present THEN [conns |-> conns, failed |-> FALSE, raised |-> FALSE]
        ELSE IF conn.transport = NoTransport
        THEN [conns |-> conns1, failed |-> FALSE, raised |-> FALSE]
        ELSE [conns |-> conns1, failed |-> fails, raised |-> fails]

ScInit ==
    /\ PbIdle /\ SlIdle /\ WsIdle /\ RgIdle /\ RaIdle /\ ScIdle /\ HbIdle
    /\ connections = [u \in ScUuids |-> createInitialSerialState(u)]

\* the application calls connect(uuid)
ScConnect(uuid) ==
    /\ outcome.n < MaxSerialCalls
    /\ \E fails \in BOOLEAN :
          LET r == serialConnect(connections, uuid, fails)
          IN  /\ connections' = r.conns
              /\ outcome' = [n |-> outcome.n + 1, op |-> "connect", uuid |-> uuid,
                             failed |-> r.failed, raised |-> r.raised]
    /\ UNCHANGED <<pbVars, slVars, wsVars, rgVars, raVars, hbVars, serial>>

\* the application calls conn.send(data), which is defaultSend(uuid, data)
ScSend(uuid) ==
    /\ outcome.n < MaxSerialCalls
    /\ \E fails \in BOOLEAN :
          LET r == serialDefaultSend(connections, uuid, fails)
          IN  /\ connections' = r.conns
              /\ outcome' = [n |-> outcome.n + 1, op |-> "send", uuid |-> uuid,
                             failed |-> r.failed, raised |-> r.raised]
    /\ UNCHANGED <<pbVars, slVars, wsVars, rgVars, raVars, hbVars, serial>>

\* the application calls disconnect(uuid)
ScDisconnect(uuid) ==
    /\ outcome.n < MaxSerialCalls
    /\ connections' = serialDisconnect(connections, uuid)
    /\ outcome' = [n |-> outcome.n + 1, op |-> "disconnect", uuid |-> uuid,
                   failed |-> FALSE, raised |-> FALSE]
    /\ UNCHANGED <<pbVars, slVars, wsVars, rgVars, raVars, hbVars, serial>>

ScNext == \E u \in ScUuids : ScConnect(u) \/ ScSend(u) \/ ScDisconnect(u)

ScSpec == ScInit /\ [][ScNext]_vars

ErrorLogs(logs) == SelectSeq(logs, LAMBDA l : l.level = 0)

\* C18: when transport.connect or transport.write fails in a call for
\* connection a, the call logs an error for a, leaves a with isConnected
\* and isConnecting false, changes no other connection and does not end
\* with an exception.
C18_TransportErrorsLocal ==
    [][\A a \in ScUuids :
          (outcome'.n = outcome.n + 1 /\ outcome'.uuid = a /\ outcome'.failed)
          => /\ Len(ErrorLogs(connections'[a].logs)) >
                    Len(ErrorLogs(connections[a].logs))
             /\ ~connections'[a].isConnected /\ ~connections'[a].isConnecting
             /\ \A b \in ScUuids \ {a} : connections'[b] = connections[b]
             /\ ~outcome'.raised]_vars

-----------------------------------------------------------------------------
(* Serial transport: connect, the read loop, disconnect and removeConnection
   of one connection.  serial.transport is the state of the Transport object
   made by connect; transport.disconnect() ends the stream the read loop
   reads, a call of it that hangs leaves the stream as it is. *)

\* the chunks the port delivers in these runs, MaxSrBytes bytes at most
SrChunks == {<<97, NEWLINE>>, <<98>>, <<NEWLINE>>}

SrInit ==
    /\ PbIdle /\ WsIdle /\ RgIdle /\ RaIdle /\ ScIdle /\ HbIdle
    /\ connections = [u \in Uuids |-> createInitialSerialState(u)]
    /\ slipReadWrite \in BOOLEAN
    /\ reading = FALSE
    /\ readBuffer = <<>>
    /\ slipBuffer = <<>>
    /\ inSlipFrame = FALSE
    /\ escapeNext = FALSE
    /\ received = <<>>
    /\ sfed = <<>>
    /\ swhole = TRUE

\* connect(uuid), lines 206-256, on a connection without transport whose
\* port is free; when transport.connect succeeds readLoop starts (line 241)
SrConnect(uuid) ==
    /\ connections[uuid].present
    /\ connections[uuid].transport = NoTransport
    /\ serial.transport \in {"none", "closed"} /\ ~reading
    /\ serial.pending = "none"
    /\ outcome.n < MaxSerialCalls
    /\ \E fails \in BOOLEAN :
          /\ connections' = serialConnect(connections, uuid, fails).conns
          /\ serial' = IF fails THEN serial
                       ELSE [serial EXCEPT !.transport = "open", !.closing = FALSE]
          /\ reading' = ~fails
          /\ outcome' = [n |-> outcome.n + 1, op |-> "connect", uuid |-> uuid,
                         failed |-> fails, raised |-> FALSE]
    /\ readBuffer' = <<>> /\ slipBuffer' = <<>>
    /\ inSlipFrame' = FALSE /\ escapeNext' = FALSE
    /\ UNCHANGED <<slipReadWrite, received, sfed, swhole>>
    /\ UNCHANGED <<pbVars, wsVars, rgVars, raVars, hbVars>>

\* lines 101-168: reader.next() yields a chunk of the open stream
SrChunk(uuid) ==
    /\ reading /\ serial.transport = "open"
    /\ \E chunk \in SrChunks :
          /\ Len(sfed) + Len(chunk) <= MaxSrBytes
          /\ LET st == readBytes(LoopState, chunk)
             IN  /\ readBuffer' = st.readBuffer
                 /\ slipBuffer' = st.slipBuffer
                 /\ inSlipFrame' = st.inSlipFrame
                 /\ escapeNext' = st.escapeNext
                 /\ received' = st.received
                 /\ sfed' = sfed \o chunk
                 /\ swhole' = (sfed = <<>>)
    /\ UNCHANGED <<connections, slipReadWrite, reading>>
    /\ UNCHANGED <<pbVars, wsVars, rgVars, raVars, scVars, hbVars>>

\* lines 103, 176-188: the stream has ended, the loop breaks and the
\* finally block runs
SrLoopEnds(uuid) ==
    /\ serial.transport = "closed"
    /\ ReadDone(uuid)

\* disconnect(uuid) up to its await, lines 258-267; then names the caller:
\* "remove" for removeConnection (lines 307-312), "disconnect" for the
\* application.  Without transport the call runs to its end at once.
SrDisconnect(uuid, then) ==
    /\ serial.pending = "none"
    /\ connections[uuid].present
    /\ outcome.n < MaxSerialCalls
    /\ outcome' = [n |-> outcome.n + 1, op |-> then, uuid |-> uuid,
                   failed |-> FALSE, raised |-> FALSE]
    /\ IF connections[uuid].transport # NoTransport
       THEN /\ serial' = [serial EXCEPT !.pending = then, !.closing = TRUE]
            /\ UNCHANGED connections
       ELSE /\ connections' =
                   IF then = "remove"
                   THEN removeConnection(serialDisconnect(connections, uuid), uuid)
                   ELSE serialDisconnect(connections, uuid)
            /\ UNCHANGED serial
    /\ UNCHANGED slVars
    /\ UNCHANGED <<pbVars, wsVars, rgVars, raVars, hbVars>>

\* lines 264-283, 311: Promise.race settles, because transport.disconnect()
\* has finished or because the timeout has fired; the record is reset and,
\* in removeConnection, deleted
SrRaceSettles(uuid) ==
    /\ serial.pending # "none"
    /\ \E timedOut \in BOOLEAN :
          serial' = [serial EXCEPT !.pending = "none",
                                   !.transport = IF timedOut THEN @ ELSE "closed"]
    /\ connections' =
          IF serial.pending = "remove"
          THEN removeConnection(serialDisconnect(connections, uuid), uuid)
          ELSE serialDisconnect(connections, uuid)
    /\ UNCHANGED <<slVars, outcome>>
    /\ UNCHANGED <<pbVars, wsVars, rgVars, raVars, hbVars>>

\* a transport.disconnect() that lost the race finishes after all
SrLateClose(uuid) ==
    /\ serial.pending = "none" /\ serial.closing /\ serial.transport = "open"
    /\ serial' = [serial EXCEPT !.transport = "closed"]
    /\ UNCHANGED <<connections, slVars, outcome>>
    /\ UNCHANGED <<pbVars, wsVars, rgVars, raVars, hbVars>>

SrNext ==
    \E u \in Uuids :
        \/ SrConnect(u) \/ SrChunk(u) \/ SrLoopEnds(u)
        \/ SrDisconnect(u, "disconnect") \/ SrDisconnect(u, "remove")
        \/ SrRaceSettles(u) \/ SrLateClose(u)

SrSpec == SrInit /\ [][SrNext]_vars

\* C32: once removeConnection has taken the record out of the registry the
\* read loop of the connection is over: no onReceive call is made and no
\* record of the uuid appears or changes any more.
C32_RemovalStopsReadLoop ==
    [][\A u \in Uuids :
          ~connections[u].present
          => /\ received' = received
             /\ connections'[u] = connections[u]]_vars

-----------------------------------------------------------------------------
(* Serial text lines and the default onReceive: the read loop hands each
   line to conn.onReceive, which addConnection (lines 286-304) binds to
   defaultOnReceive (lines 31-67) when the application gives none. *)

\* combined.split("\r\n")
RECURSIVE splitCRLF(_)
splitCRLF(text) ==
    LET hits == {i \in 1..(Len(text) - 1) : text[i] = CR /\ text[i + 1] = NEWLINE}
    IN  IF hits = {} THEN <<text>>
        ELSE <<SubSeq(text, 1, Min(hits) - 1)>>
                 \o splitCRLF(SubSeq(text, Min(hits) + 2, Len(text)))

\* lines 58-66: one level-2 log per piece that is not blank
RECURSIVE logTrimmedLines(_, _, _)
logTrimmedLines(conns, uuid, lines) ==
    IF lines = <<>> THEN conns
    ELSE LET trimmed == trim(Head(lines))
             next == IF trimmed # <<>>
                     THEN appendLog(conns, uuid, LogLine(2, "text", trimmed, 0))
                     ELSE conns
         IN  logTrimmedLines(next, uuid, Tail(lines))

\* defaultOnReceive(uuid, data), lines 31-67, of the serial transport; data
\* is the text as its code units
defaultOnReceive(conns, uuid, data) ==
    LET conn == getConnection(conns, uuid)
        combined == conn.readBufferLeftover \o data
        lines == splitCRLF(combined)
        leftover == lines[Len(lines)]
    IN  IF ~conn.present THEN conns
        ELSE logTrimmedLines(
                 updateConnection(conns, uuid,
                     [conn EXCEPT !.readBufferLeftover = leftover]),
                 uuid, SubSeq(lines, 1, Len(lines) - 1))

\* the onReceive calls of one chunk, in the order the loop makes them
RECURSIVE onReceiveCalls(_, _, _)
onReceiveCalls(conns, uuid, calls) ==
    IF calls = <<>> THEN conns
    ELSE onReceiveCalls(defaultOnReceive(conns, uuid, Head(calls).data),
                        uuid, Tail(calls))

LnBytes == {97, CR, NEWLINE}

LnInit == SrInit /\ slipReadWrite = FALSE

\* lines 101-168: reader.next() yields a chunk, every line the loop takes
\* out of it goes through conn.onReceive
LnChunk(uuid) ==
    /\ reading /\ serial.transport = "open"
    /\ \E chunk \in SeqsUpTo(LnBytes, MaxSrBytes - Len(sfed)) :
          /\ chunk # <<>>
          /\ LET st == readBytes(LoopState, chunk)
             IN  /\ readBuffer' = st.readBuffer
                 /\ slipBuffer' = st.slipBuffer
                 /\ inSlipFrame' = st.inSlipFrame
                 /\ escapeNext' = st.escapeNext
                 /\ received' = st.received
                 /\ connections' =
                        onReceiveCalls(connections, uuid,
                            SubSeq(st.received, Len(received) + 1, Len(st.received)))
                 /\ sfed' = sfed \o chunk
                 /\ swhole' = (sfed = <<>>)
    /\ UNCHANGED <<slipReadWrite, reading>>
    /\ UNCHANGED <<pbVars, wsVars, rgVars, raVars, scVars, hbVars>>

\* lines 103, 176-188: the port is gone, reader.next() reports done
LnStreamEnds(uuid) ==
    /\ serial.transport = "open"
    /\ ReadDone(uuid)

LnNext == \E u \in Uuids : SrConnect(u) \/ LnChunk(u) \/ LnStreamEnds(u)

LnSpec == LnInit /\ [][LnNext]_vars

\* the newline-terminated lines of a byte stream, without their terminators
RECURSIVE linesOf(_)
linesOf(bytes) ==
    LET newlineIndex == indexOfNewline(bytes)
    IN  IF newlineIndex < 0 THEN <<>>
        ELSE <<slice(bytes, 0, newlineIndex)>>
                 \o linesOf(sliceFrom(bytes, newlineIndex + 1))

ExpectedTextLogs(bytes) ==
    LET ls == SelectSeq(linesOf(bytes), LAMBDA l : trim(l) # <<>>)
    IN  [i \in 1..Len(ls) |-> LogLine(2, "text", trim(ls[i]), 0)]

SerialTextLogs(logs) == SelectSeq(logs, LAMBDA l : l.kind = "text")

\* C36: with SLIP off and the default onReceive, once the stream has ended
\* the logs of the connection hold one level-2 line for every non-blank
\* newline-terminated line the loop read, trimmed, in arrival order and
\* not merged with its neighbours.
C36_SerialLinesReachLog ==
    \A u \in Uuids :
        (~reading /\ sfed # <<>>)
        => SerialTextLogs(connections[u].logs) = ExpectedTextLogs(sfed)

-----------------------------------------------------------------------------
(* USB transport (part_002): connect, disconnect and the polling read loops
   of one connection.  Every UsbTransport of a connection wraps the same
   USBDevice, so serial.opened, device.opened, is shared by all its loops.
   A loop is at its while test ("check"), in transport.read ("reading"), in
   its 10 ms pause ("sleeping") or over ("ended"). *)

LoopIds == 1..(MaxUsbLoops + 1)

\* disconnect(uuid), part_002 lines 327-332, after transport.disconnect()
usbDisconnect(conns, uuid) ==
    updateConnection(conns, uuid,
        [conns[uuid] EXCEPT !.transport = NoTransport, !.isConnected = FALSE,
                            !.isConnecting = FALSE])

\* line 292
usbConnecting(conns, uuid) ==
    updateConnection(conns, uuid, [conns[uuid] EXCEPT !.isConnecting = TRUE])

UcInit ==
    /\ PbIdle /\ SlIdle /\ WsIdle /\ RgIdle /\ RaIdle /\ ScIdle /\ HbIdle
    /\ connections = [u \in Uuids |-> createInitialSerialState(u)]

\* connect(uuid) up to its first await, lines 285-297: with a transport it
\* awaits disconnect(uuid), without one it goes on to transport.connect
UcConnect(uuid) ==
    /\ serial.call = "none"
    /\ outcome.n < MaxSerialCalls /\ Len(serial.loops) < MaxUsbLoops
    /\ connections[uuid].present
    /\ outcome' = [n |-> outcome.n + 1, op |-> "connect", uuid |-> uuid,
                   failed |-> FALSE, raised |-> FALSE]
    /\ IF connections[uuid].transport # NoTransport
       THEN /\ serial' = [serial EXCEPT !.call = "connect-closing"]
            /\ UNCHANGED connections
       ELSE /\ serial' = [serial EXCEPT !.call = "connect-opening"]
            /\ connections' = usbConnecting(connections, uuid)
    /\ UNCHANGED <<pbVars, slVars, wsVars, rgVars, raVars, hbVars>>

\* the application calls disconnect(uuid), lines 322-326
UcDisconnect(uuid) ==
    /\ serial.call = "none"
    /\ outcome.n < MaxSerialCalls
    /\ connections[uuid].present
    /\ outcome' = [n |-> outcome.n + 1, op |-> "disconnect", uuid |-> uuid,
                   failed |-> FALSE, raised |-> FALSE]
    /\ IF connections[uuid].transport # NoTransport
       THEN /\ serial' = [serial EXCEPT !.call = "disconnect-closing"]
            /\ UNCHANGED connections
       ELSE /\ connections' = usbDisconnect(connections, uuid)
            /\ UNCHANGED serial
    /\ UNCHANGED <<pbVars, slVars, wsVars, rgVars, raVars, hbVars>>

\* device.close() has finished (lines 138-142): a transferIn in flight is
\* rejected, transport.read returns null (lines 92-95) and its loop goes
\* to its pause; disconnect resets the record (lines 327-332) and connect
\* goes on to line 292
UcClosed(uuid) ==
    /\ serial.call \in {"connect-closing", "disconnect-closing"}
    /\ serial' = [serial EXCEPT
                     !.opened = FALSE,
                     !.loops = [l \in 1..Len(serial.loops) |->
                                   IF serial.loops[l] = "reading" THEN "sleeping"
                                   ELSE serial.loops[l]],
                     !.call = IF serial.call = "connect-closing"
                              THEN "connect-opening" ELSE "none"]
    /\ connections' =
          IF serial.call = "connect-closing"
          THEN usbConnecting(usbDisconnect(connections, uuid), uuid)
          ELSE usbDisconnect(connections, uuid)
    /\ UNCHANGED outcome
    /\ UNCHANGED <<pbVars, slVars, wsVars, rgVars, raVars, hbVars>>

\* transport.connect has settled, lines 297-319: when it succeeded the
\* device is opened, the record gets the transport and readLoop starts;
\* when it threw the catch block resets the record
UcOpened(uuid) ==
    /\ serial.call = "connect-opening"
    /\ \E fails \in BOOLEAN :
          IF fails
          THEN /\ serial' = [serial EXCEPT !.call = "none"]
               /\ connections' = usbDisconnect(connections, uuid)
          ELSE /\ serial' = [serial EXCEPT
                                !.opened = TRUE, !.call = "none",
                                !.loops = IF connections[uuid].present
                                          THEN Append(@, "check") ELSE @]
               /\ connections' =
                     updateConnection(connections, uuid,
                         [connections[uuid] EXCEPT !.transport = "open",
                                                   !.isConnected = TRUE,
                                                   !.isConnecting = FALSE])
    /\ UNCHANGED outcome
    /\ UNCHANGED <<pbVars, slVars, wsVars, rgVars, raVars, hbVars>>

\* line 208: while (transport.device.opened)
UcLoopCheck(l) ==
    /\ l <= Len(serial.loops) /\ serial.loops[l] = "check"
    /\ serial' = [serial EXCEPT
                     !.loops[l] = IF serial.opened THEN "reading" ELSE "ended"]
    /\ UNCHANGED <<connections, outcome>>
    /\ UNCHANGED <<pbVars, slVars, wsVars, rgVars, raVars, hbVars>>

\* lines 210-262: transport.read returns bytes, which are decoded and
\* handed on, or nothing, and the loop pauses
UcLoopRead(l) ==
    /\ l <= Len(serial.loops) /\ serial.loops[l] = "reading"
    /\ \E got \in BOOLEAN :
          IF got
          THEN /\ serial.opened /\ Len(received) < MaxSrBytes
               /\ received' = Append(received, OnReceive("line", <<96 + l>>))
               /\ serial' = [serial EXCEPT !.loops[l] = "check"]
          ELSE /\ received' = received
               /\ serial' = [serial EXCEPT !.loops[l] = "sleeping"]
    /\ UNCHANGED <<connections, outcome>>
    /\ UNCHANGED <<slipReadWrite, reading, readBuffer, slipBuffer, inSlipFrame,
                   escapeNext, sfed, swhole>>
    /\ UNCHANGED <<pbVars, wsVars, rgVars, raVars, hbVars>>

\* lines 214-215: the 10 ms pause is over
UcLoopWake(l) ==
    /\ l <= Len(serial.loops) /\ serial.loops[l] = "sleeping"
    /\ serial' = [serial EXCEPT !.loops[l] = "check"]
    /\ UNCHANGED <<connections, outcome>>
    /\ UNCHANGED <<pbVars, slVars, wsVars, rgVars, raVars, hbVars>>

UcNext ==
    \/ \E u \in Uuids : UcConnect(u) \/ UcDisconnect(u) \/ UcClosed(u) \/ UcOpened(u)
    \/ \E l \in LoopIds : UcLoopCheck(l) \/ UcLoopRead(l) \/ UcLoopWake(l)

UcSpec == UcInit /\ [][UcNext]_vars

\* the read loops that are reading from the device
ReadingLoops == {l \in 1..Len(serial.loops) : serial.loops[l] = "reading"}

\* C35: at no instant do two read loops read from the device of the
\* connection, and a loop that a later connect has replaced by a newer loop
\* never enters transport.read again.
C35_SingleReadLoop ==
    /\ [](Cardinality(ReadingLoops) <= 1)
    /\ [][\A l \in LoopIds :
             (l < Len(serial.loops) /\ serial.loops[l] # "reading")
             => serial'.loops[l] # "reading"]_vars

-----------------------------------------------------------------------------
(* WebSocket transport: WebsocketMultiDeviceWhisperer *)

MAX_RETRIES == 5

Sock(uuid, attempt, state) ==
    [uuid |-> uuid, attempt |-> attempt, state |-> state, errored |-> FALSE]

\* WebSocket.close(): a connecting or open socket starts closing, its close
\* event comes later; on a closing or closed socket nothing happens
wsClose(ss, s) ==
    IF ss[s].state \in {"connecting", "open"}
    THEN [ss EXCEPT ![s].state = "closing"]
    ELSE ss

\* disconnect(uuid), lines 187-202
disconnect(conns, ss, uuid) ==
    LET conn == getConnection(conns, uuid)
    IN  IF ~conn.present \/ conn.ws = NoWs
        THEN [conns |-> conns, socks |-> ss]
        ELSE [conns |-> updateConnection(conns, uuid,
                            [conn EXCEPT !.isConnected = FALSE, !.isConnecting = FALSE,
                                         !.autoConnect = FALSE, !.ws = NoWs,
                                         !.readBufferLeftover = <<>>]),
              socks |-> wsClose(ss, conn.ws)]

\* connect(uuid, attempt), lines 101-185; throws says that new WebSocket
\* raised an exception, which the catch block handles
connect(conns, ss, uuid, attempt, throws) ==
    LET conn == getConnection(conns, uuid)
        ss1 == IF conn.ws # NoWs /\ ss[conn.ws].state = "open"
               THEN wsClose(ss, conn.ws) ELSE ss
        conns1 == updateConnection(conns, uuid,
                      [conn EXCEPT !.isConnecting = TRUE, !.autoConnect = TRUE])
        conns2 == updateConnection(conns1, uuid,
                      [conns1[uuid] EXCEPT
                          !.isConnected = FALSE, !.isConnecting = FALSE,
                          !.logs = Append(@, LogLine(0, "ws-connection-error", <<>>, 0))])
    IN  IF ~conn.present THEN [conns |-> conns, socks |-> ss]
        ELSE IF throws THEN disconnect(conns2, ss1, uuid)
        ELSE [conns |-> conns1,
              socks |-> Append(ss1, Sock(uuid, attempt, "connecting"))]

\* ws.onopen, lines 120-135
onopen(conns, s, uuid, attempt) ==
    appendLog(updateConnection(conns, uuid,
                  [conns[uuid] EXCEPT !.ws = s, !.isConnected = TRUE,
                                      !.isConnecting = FALSE, !.lastAttempt = attempt]),
              uuid, LogLine(2, "ws-connected", <<>>, 0))

\* line 168 with <= for <
retryAllowedOffByOne(autoConnect, attempt) == autoConnect /\ attempt <= MAX_RETRIES

\* line 168: auto reconnect if enabled
retryAllowed(autoConnect, attempt) == autoConnect /\ attempt < MAX_RETRIES

\* onclose giving up for good when the retries are used up: autoConnect is
\* cleared with the last close
oncloseGivesUp(conns, uuid, attempt) ==
    LET conns1 == updateConnection(conns, uuid,
                      [conns[uuid] EXCEPT !.isConnected = FALSE,
                                          !.isConnecting = FALSE, !.ws = NoWs])
        retry == conns1[uuid].present
                   /\ retryAllowed(conns1[uuid].autoConnect, attempt)
    IN  [conns |-> IF retry THEN conns1
                   ELSE updateConnection(conns1, uuid,
                            [conns1[uuid] EXCEPT !.autoConnect = FALSE]),
         retry |-> retry]

\* onclose with the attempt counter started afresh by a socket that had
\* opened: its close is counted as the close of attempt 0
oncloseResetByOpen(conns, uuid, attempt) ==
    LET conns1 == appendLog(
                      updateConnection(conns, uuid,
                          [conns[uuid] EXCEPT !.isConnected = FALSE,
                                              !.isConnecting = FALSE, !.ws = NoWs]),
                      uuid, LogLine(0, "ws-disconnected", <<>>, 0))
        updated_conn == getConnection(conns1, uuid)
        counted == IF conns[uuid].present /\ conns[uuid].isConnected
                   THEN 0 ELSE attempt
    IN  IF ~updated_conn.present
        THEN [conns |-> appendLog(conns1, uuid, LogLine(0, "connection-lost", <<>>, 0)),
              retry |-> FALSE]
        ELSE IF retryAllowed(updated_conn.autoConnect, counted)
        THEN [conns |-> appendLog(conns1, uuid,
                                  LogLine(2, "reconnecting", <<>>, attempt + 1)),
              retry |-> TRUE]
        ELSE [conns |-> conns1, retry |-> FALSE]

\* ws.onclose, lines 152-172: the registry after it, and whether it has
\* scheduled connect(uuid, attempt + 1)
onclose(conns, uuid, attempt) ==
    LET conns1 == appendLog(
                      updateConnection(conns, uuid,
                          [conns[uuid] EXCEPT !.isConnected = FALSE,
                                              !.isConnecting = FALSE, !.ws = NoWs]),
                      uuid, LogLine(0, "ws-disconnected", <<>>, 0))
        updated_conn == getConnection(conns1, uuid)
    IN  IF ~updated_conn.present
        THEN [conns |-> appendLog(conns1, uuid, LogLine(0, "connection-lost", <<>>, 0)),
              retry |-> FALSE]
        ELSE IF retryAllowed(updated_conn.autoConnect, attempt)
        THEN [conns |-> appendLog(conns1, uuid,
                                  LogLine(2, "reconnecting", <<>>, attempt + 1)),
              retry |-> TRUE]
        ELSE [conns |-> conns1, retry |-> FALSE]

\* appendLog called n times in a row: the first half of the calls, then the
\* rest on their result (bound as a value, which keeps the evaluation shallow)
RECURSIVE appendLogs(_, _, _, _)
appendLogs(conns, uuid, log, n) ==
    IF n = 0 THEN conns
    ELSE IF n = 1 THEN appendLog(conns, uuid, log)
    ELSE CHOOSE r \in {appendLogs(half, uuid, log, n - (n \div 2)) :
                          half \in {appendLogs(conns, uuid, log, n \div 2)}} : TRUE

SockIds == 1..(MaxChainSocks + MaxApiSocks + MaxRetrySocks)

NoHist ==
    [manual |-> 0, disc |-> FALSE, removed |-> FALSE, scheduled |-> <<>>, got |-> 0]

WsInit ==
    /\ PbIdle /\ SlIdle /\ RgIdle /\ RaIdle /\ ScIdle /\ HbIdle
    /\ connections = [u \in Uuids |-> createDefaultInitialDeviceState(u)]
    /\ socks = <<>>
    /\ timers = <<>>
    /\ \E p \in {<<1, MaxChainSocks>>, <<MaxApi, MaxApiSocks>>} :
          apiLeft = p[1] /\ sockCap = p[2]
    /\ hist = [u \in Uuids |-> NoHist]

\* the application calls connect(uuid)
Connect(uuid) ==
    /\ apiLeft > 0 /\ Len(socks) < sockCap
    /\ \E throws \in BOOLEAN :
          LET r == connect(connections, socks, uuid, 0, throws)
          IN  connections' = r.conns /\ socks' = r.socks
    /\ apiLeft' = apiLeft - 1
    /\ hist' = [hist EXCEPT ![uuid].manual = @ + 1, ![uuid].disc = FALSE]
    /\ UNCHANGED <<timers, sockCap>>
    /\ UNCHANGED <<pbVars, slVars, rgVars, raVars, scVars, hbVars>>

\* the application calls disconnect(uuid)
Disconnect(uuid) ==
    /\ apiLeft > 0
    /\ LET r == disconnect(connections, socks, uuid)
       IN  connections' = r.conns /\ socks' = r.socks
    /\ apiLeft' = apiLeft - 1
    /\ hist' = [hist EXCEPT ![uuid].disc = TRUE]
    /\ UNCHANGED <<timers, sockCap>>
    /\ UNCHANGED <<pbVars, slVars, rgVars, raVars, scVars, hbVars>>

\* the application calls appendLog(uuid, log), once or LogBurst times
AppendLog(uuid) ==
    /\ apiLeft > 0
    /\ \E n \in {1, LogBurst} :
          connections' = appendLogs(connections, uuid, LogLine(3, "app", <<>>, 0), n)
    /\ apiLeft' = apiLeft - 1
    /\ UNCHANGED <<socks, timers, sockCap, hist>>
    /\ UNCHANGED <<pbVars, slVars, rgVars, raVars, scVars, hbVars>>

\* the application calls addConnection({uuid})
AddConnection(uuid) ==
    /\ apiLeft > 0
    /\ connections' = addConnection(connections, uuid)
    /\ apiLeft' = apiLeft - 1
    /\ UNCHANGED <<socks, timers, sockCap, hist>>
    /\ UNCHANGED <<pbVars, slVars, rgVars, raVars, scVars, hbVars>>

\* the application calls removeConnection(uuid), lines 220-223
RemoveConnection(uuid) ==
    /\ apiLeft > 0
    /\ LET r == disconnect(connections, socks, uuid)
       IN  connections' = removeConnection(r.conns, uuid) /\ socks' = r.socks
    /\ apiLeft' = apiLeft - 1
    /\ hist' = [hist EXCEPT ![uuid].removed = TRUE]
    /\ UNCHANGED <<timers, sockCap>>
    /\ UNCHANGED <<pbVars, slVars, rgVars, raVars, scVars, hbVars>>

\* the open event of socket s
SockOpen(s) ==
    /\ s <= Len(socks) /\ socks[s].state = "connecting"
    /\ socks' = [socks EXCEPT ![s].state = "open"]
    /\ connections' = onopen(connections, s, socks[s].uuid, socks[s].attempt)
    /\ UNCHANGED <<timers, apiLeft, sockCap, hist>>
    /\ UNCHANGED <<pbVars, slVars, rgVars, raVars, scVars, hbVars>>

\* the error event of socket s, lines 145-150
SockError(s) ==
    /\ s <= Len(socks) /\ socks[s].state \in {"connecting", "open"}
    /\ ~socks[s].errored
    /\ socks' = [socks EXCEPT ![s].errored = TRUE]
    /\ connections' = appendLog(connections, socks[s].uuid, LogLine(0, "ws-error", <<>>, 0))
    /\ UNCHANGED <<timers, apiLeft, sockCap, hist>>
    /\ UNCHANGED <<pbVars, slVars, rgVars, raVars, scVars, hbVars>>

\* the close event of socket s: the connection failed, the peer or the
\* network closed it, or close() was called on it
SockClose(s) ==
    /\ s <= Len(socks) /\ socks[s].state \in {"connecting", "open", "closing"}
    /\ LET uuid == socks[s].uuid
           r == onclose(connections, uuid, socks[s].attempt)
       IN  /\ connections' = r.conns
           /\ timers' = IF r.retry
                        THEN Append(timers, [uuid |-> uuid, attempt |-> socks[s].attempt + 1])
                        ELSE timers
           /\ hist' = IF r.retry
                      THEN [hist EXCEPT ![uuid].scheduled = Append(@, socks[s].attempt + 1)]
                      ELSE hist
    /\ socks' = [socks EXCEPT ![s].state = "closed"]
    /\ UNCHANGED <<apiLeft, sockCap>>
    /\ UNCHANGED <<pbVars, slVars, rgVars, raVars, scVars, hbVars>>

\* the oldest retry timer fires: connect(uuid, attempt + 1), line 170
TimerFire ==
    /\ timers # <<>> /\ Len(socks) < sockCap
    /\ \E throws \in BOOLEAN :
          LET r == connect(connections, socks, timers[1].uuid, timers[1].attempt, throws)
          IN  connections' = r.conns /\ socks' = r.socks
    /\ timers' = Tail(timers)
    /\ UNCHANGED <<apiLeft, sockCap, hist>>
    /\ UNCHANGED <<pbVars, slVars, rgVars, raVars, scVars, hbVars>>

WsNext ==
    \/ \E u \in Uuids : Connect(u) \/ Disconnect(u) \/ AppendLog(u)
                           \/ AddConnection(u) \/ RemoveConnection(u)
    \/ \E s \in SockIds : SockOpen(s) \/ SockError(s) \/ SockClose(s)
    \/ TimerFire

WsSpec == WsInit /\ [][WsNext]_vars

-----------------------------------------------------------------------------
(* Properties of the WebSocket transport *)

SocksOf(uuid) == SelectSeq(socks, LAMBDA k : k.uuid = uuid)
Closures(uuid) == Len(SelectSeq(SocksOf(uuid), LAMBDA k : k.state = "closed"))
\* the attempt numbers of the connect calls the retry timers made
AutoAttempts(uuid) ==
    LET auto == SelectSeq(SocksOf(uuid), LAMBDA k : k.attempt > 0)
    IN  [i \in 1..Len(auto) |-> auto[i].attempt]
OneManualConnect(uuid) ==
    hist[uuid].manual = 1 /\ ~hist[uuid].disc /\ ~hist[uuid].removed

\* C8: after one manual connect and no disconnect, k close events have
\* scheduled the reconnect attempts 1..min(k,5) and no other: six closures
\* schedule five attempts, the sixth none.
C8_BoundedRetry ==
    \A u \in Uuids :
        OneManualConnect(u)
        => /\ hist[u].scheduled =
                [i \in 1..Min({Closures(u), MAX_RETRIES}) |-> i]
           /\ IsPrefix(AutoAttempts(u), hist[u].scheduled)

\* the sixth socket of the chain has closed
C8_Witness ==
    \E u \in Uuids :
        /\ OneManualConnect(u)
        /\ Closures(u) = 6
        /\ hist[u].scheduled = <<1, 2, 3, 4, 5>>
        /\ AutoAttempts(u) = <<1, 2, 3, 4, 5>>
        /\ timers = <<>>

\* C38: after one manual connect and no disconnect the reconnects scheduled
\* are at most five, numbered 1, 2, ... in turn, whether or not an attempt
\* in between opened: an open does not start the count again.
C38_LifetimeRetryCap ==
    \A u \in Uuids :
        OneManualConnect(u)
        => /\ Len(hist[u].scheduled) <= MAX_RETRIES
           /\ \A i \in 1..Len(hist[u].scheduled) : hist[u].scheduled[i] = i
           /\ connections[u].present
                 => connections[u].lastAttempt <= Len(hist[u].scheduled)

\* the fifth reconnect opened and closed, and nothing more was scheduled
C38_Witness ==
    \E u \in Uuids :
        /\ OneManualConnect(u)
        /\ connections[u].lastAttempt = MAX_RETRIES
        /\ Closures(u) = MAX_RETRIES + 1
        /\ Len(hist[u].scheduled) = MAX_RETRIES
        /\ timers = <<>>

\* the sockets of uuid that are connecting or open
LiveSocks(uuid) ==
    {s \in 1..Len(socks) :
        socks[s].uuid = uuid /\ socks[s].state \in {"connecting", "open"}}

\* C33: the close event of a socket that a later connect(uuid) has
\* superseded leaves ws and isConnected of the connection as they are and
\* schedules no reconnect; and no uuid ever has two sockets that are
\* connecting or open.
C33_StaleCloseHarmless ==
    /\ [][\A s \in SockIds :
             (/\ s <= Len(socks) /\ socks[s].state # "closed"
              /\ socks'[s].state = "closed"
              /\ \E n \in (s + 1)..Len(socks) : socks[n].uuid = socks[s].uuid)
             => /\ connections'[socks[s].uuid].present
                      = connections[socks[s].uuid].present
                /\ connections[socks[s].uuid].present
                      => /\ connections'[socks[s].uuid].ws
                              = connections[socks[s].uuid].ws
                         /\ connections'[socks[s].uuid].isConnected
                              = connections[socks[s].uuid].isConnected
                /\ timers' = timers]_vars
    /\ [](\A u \in Uuids : Cardinality(LiveSocks(u)) <= 1)

\* C34: no connection has isConnected and isConnecting both true.
C34_HealthFlagsExclusive ==
    \A u \in Uuids :
        connections[u].present
        => ~(connections[u].isConnected /\ connections[u].isConnecting)

\* connected, connecting, or waiting for a scheduled retry
InClaimedState(uuid) ==
    \/ connections[uuid].isConnected
    \/ connections[uuid].isConnecting
    \/ \E i \in 1..Len(timers) : timers[i].uuid = uuid

\* C9: disconnect(uuid) on an existing connection that is connected,
\* connecting or waiting for a retry leaves autoConnect false,
\* and while the last request was a disconnect no retry timer opens a socket
\* or changes the connection.
C9_DisconnectStopsReconnect ==
    [][\A u \in Uuids :
          /\ (connections[u].present /\ InClaimedState(u) /\ Disconnect(u))
                => ~connections'[u].autoConnect
          /\ (hist[u].disc /\ timers # <<>> /\ timers[1].uuid = u /\ TimerFire)
                => (socks' = socks /\ connections' = connections)]_vars

\* the health of a connection, read from isConnected and isConnecting
Health(c) ==
    IF c.isConnected /\ ~c.isConnecting THEN "Connected"
    ELSE IF ~c.isConnected /\ c.isConnecting THEN "Connecting"
    ELSE IF ~c.isConnected /\ ~c.isConnecting THEN "Disconnected"
    ELSE "ConnectedAndConnecting"

\* the moves of the state machine Disconnected -> Connecting -> Connected,
\* and back to Disconnected from anywhere
HealthMoves ==
    {<<"Disconnected", "Connecting">>, <<"Connecting", "Connected">>}
    \cup {<<h, "Disconnected">> : h \in {"Connecting", "Connected"}}

\* C19: the health of a connection is Disconnected, Connecting or
\* Connected and changes only along Disconnected -> Connecting -> Connected
\* or back to Disconnected; the close event of the connection's current
\* socket leaves it Disconnected.
C19_WsStateMachine ==
    [][\A u \in Uuids :
          (connections[u].present /\ connections'[u].present)
          => /\ \/ Health(connections'[u]) = Health(connections[u])
                \/ <<Health(connections[u]), Health(connections'[u])>> \in HealthMoves
             /\ \A s \in SockIds :
                   (SockClose(s) /\ socks[s].uuid = u /\ connections[u].ws = s)
                   => Health(connections'[u]) = "Disconnected"]_vars

-----------------------------------------------------------------------------
(* WebSocket transport, retry chains: the application only connects, and
   only when the chain before has used up its retries (the socket of
   attempt 5 has closed, every socket is closed, no retry is pending); the
   run may make the sockets of two whole chains *)

WrInit ==
    /\ PbIdle /\ SlIdle /\ RgIdle /\ RaIdle /\ ScIdle /\ HbIdle
    /\ connections = [u \in Uuids |-> createDefaultInitialDeviceState(u)]
    /\ socks = <<>>
    /\ timers = <<>>
    /\ apiLeft = MaxApi /\ sockCap = MaxRetrySocks
    /\ hist = [u \in Uuids |-> NoHist]

ChainEnded ==
    /\ timers = <<>>
    /\ \A s \in 1..Len(socks) : socks[s].state = "closed"
    /\ socks # <<>> => socks[Len(socks)].attempt = MAX_RETRIES

\* the application calls connect(uuid) after the chain has ended
ConnectAgain(uuid) == ChainEnded /\ Connect(uuid)

WrNext ==
    \/ \E u \in Uuids : ConnectAgain(u)
    \/ \E s \in SockIds : SockOpen(s) \/ SockClose(s)
    \/ TimerFire

WrSpec == WrInit /\ [][WrNext]_vars

\* the attempt numbers of two chains run one after the other
TwoChains == [i \in 1..(2 * (MAX_RETRIES + 1)) |-> (i - 1) % (MAX_RETRIES + 1)]

\* C17: the close of a socket of a connection whose autoConnect is true
\* leaves autoConnect true, also when the socket is the one of reconnect
\* attempt 5 and no further attempt is scheduled; connect(uuid) called by
\* the application makes a socket of attempt 0, and every close of a socket
\* of attempt below 5 schedules the next attempt, whatever chains ran before.
C17_RetryExhaustionKeepsAutoConnect ==
    [][\A u \in Uuids :
          /\ \A s \in SockIds :
                (/\ SockClose(s) /\ socks[s].uuid = u
                 /\ connections[u].present /\ connections[u].autoConnect)
                => /\ connections'[u].autoConnect
                   /\ timers' = IF socks[s].attempt < MAX_RETRIES
                                THEN Append(timers, [uuid |-> u,
                                                     attempt |-> socks[s].attempt + 1])
                                ELSE timers
          /\ (Connect(u) /\ connections[u].present /\ Len(socks') > Len(socks))
                => /\ socks'[Len(socks')] = Sock(u, 0, "connecting")
                   /\ connections'[u].autoConnect]_vars

\* a chain ran to the close of attempt 5, the application connected again,
\* and the second chain also ran to the close of its attempt 5
C17_Witness ==
    \E u \in Uuids :
        /\ hist[u].manual = 2
        /\ [i \in 1..Len(SocksOf(u)) |-> SocksOf(u)[i].attempt] = TwoChains
        /\ Closures(u) = Len(TwoChains)
        /\ timers = <<>>
        /\ connections[u].autoConnect

-----------------------------------------------------------------------------
(* WebSocket transport under the message layer: ws.onmessage hands the data
   to the onReceive the connection had when connect ran, which is
   protoBufOnReceiveHandler *)

\* a complete frame for the topic whose handler returns
WsFrame == wrapLengthPrefixed(<<TopicOk>>)

WmInit ==
    /\ PbIdle /\ SlIdle /\ RgIdle /\ RaIdle /\ ScIdle /\ HbIdle
    /\ connections = [u \in Uuids |-> createDefaultInitialDeviceState(u)]
    /\ socks = <<>>
    /\ timers = <<>>
    /\ apiLeft = MaxApi /\ sockCap = MaxApiSocks
    /\ hist = [u \in Uuids |-> NoHist]

\* the message event of socket s, lines 137-143: fired on an open socket only
SockMessage(s) ==
    /\ s <= Len(socks) /\ socks[s].state = "open"
    /\ Len(fed[socks[s].uuid]) + Len(WsFrame) <= MaxWsBytes
    /\ Deliver(socks[s].uuid, WsFrame)
    /\ UNCHANGED <<HEADER, wire>>
    /\ UNCHANGED <<slVars, wsVars, rgVars, raVars, scVars, hbVars>>

WmNext ==
    \/ WsNext
    \/ \E s \in SockIds : SockMessage(s)

WmSpec == WmInit /\ [][WmNext]_vars

\* removeConnection(uuid) has completed and the uuid has not been added again
Removed(uuid) == hist[uuid].removed /\ ~connections[uuid].present

\* C14: once removeConnection(uuid) has completed, no handler is invoked
\* with the uuid, no socket is opened for it and no record of it is made or
\* changed, whatever events arrive, until the application adds it again.
C14_NoActivityAfterRemoval ==
    [][\A u \in Uuids :
          (Removed(u) /\ ~AddConnection(u))
          => /\ SelectSeq(dispatched', LAMBDA c : c.uuid = u) = CallsFor(u)
             /\ Len(SelectSeq(socks', LAMBDA k : k.uuid = u)) = Len(SocksOf(u))
             /\ connections'[u] = connections[u]]_vars

\* C10: no connection ever holds more than 200 log lines.
C10_LogRingBound ==
    \A u \in Uuids :
        connections[u].present => Len(connections[u].logs) <= LOG_KEEP + 1

-----------------------------------------------------------------------------
(* The receive buffer of the message layer across the sessions of a
   connection: buffers (protobuf-wrapper.ts line 121) is written by
   protoBufOnReceiveHandler alone.  hist[uuid].got is the socket whose
   message event ran the handler last. *)

\* what a message event may carry: the length prefix of a frame cut after
\* its first byte, or a complete frame
BsChunks == {<<0>>, WsFrame}

BsInit == WmInit

\* the message event of socket s, lines 137-143, with any of the chunks
SockChunk(s) ==
    /\ s <= Len(socks) /\ socks[s].state = "open"
    /\ \E chunk \in BsChunks :
          /\ Len(fed[socks[s].uuid]) + Len(chunk) <= MaxWsBytes
          /\ Deliver(socks[s].uuid, chunk)
    /\ hist' = [hist EXCEPT ![socks[s].uuid].got = s]
    /\ UNCHANGED <<HEADER, wire>>
    /\ UNCHANGED <<socks, timers, apiLeft, sockCap>>
    /\ UNCHANGED <<slVars, rgVars, raVars, scVars, hbVars>>

BsNext ==
    \/ WsNext
    \/ \E s \in SockIds : SockChunk(s)

BsSpec == BsInit /\ [][BsNext]_vars

\* C37: when the first chunk of a new session, the first message event of
\* a socket, is handed to the receive handler after the socket of the
\* session before has been closed, buffers[uuid] is empty: no byte of the
\* earlier session is put in front of the new data.
C37_BufferEndsWithSession ==
    [][\A u \in Uuids :
          (/\ fed'[u] # fed[u]
           /\ hist'[u].got # hist[u].got
           /\ hist[u].got # 0
           /\ socks[hist[u].got].state \in {"closing", "closed"})
          => buffers[u] = <<>>]_vars

-----------------------------------------------------------------------------
(* Firmware flashing (ESP32MultiDeviceWhisperer, lines 308-381).  In these
   runs serial[uuid] is the handleFlashFirmware call of the connection:
   call is the await it stands at ("none" before the first call,
   "returned" after a return), set says that the call has set isFlashing. *)

FlUuids == ScUuids

NoFlashError == "undefined"

\* an ESP32ConnectionState as addConnection leaves it: the three flash
\* fields are not set, isFlashing reads as false
createInitialEsp32State(uuid) ==
    LET c == createInitialSerialState(uuid)
    IN  [f \in DOMAIN c \cup {"isFlashing", "flashProgress", "flashError"} |->
            IF f = "isFlashing" THEN FALSE
            ELSE IF f = "flashProgress" THEN 0
            ELSE IF f = "flashError" THEN NoFlashError
            ELSE c[f]]

NoFlash == [call |-> "none", set |-> FALSE]

\* the call goes on to its next await, or returns
flashAt(uuid, call) == [serial EXCEPT ![uuid].call = call]

\* line 313
flashBegins(conns, uuid) ==
    updateConnection(conns, uuid,
        [conns[uuid] EXCEPT !.isFlashing = TRUE, !.flashProgress = 0,
                            !.flashError = NoFlashError])

\* line 371
flashSucceeds(conns, uuid) ==
    updateConnection(conns, uuid,
        [conns[uuid] EXCEPT !.isFlashing = FALSE, !.flashProgress = 100])

\* lines 372-379, the outer catch block
flashFails(conns, uuid) ==
    updateConnection(conns, uuid,
        [conns[uuid] EXCEPT !.isFlashing = FALSE, !.flashError = "error"])

\* line 346, 349
reportProgress(conns, uuid, written, total) ==
    updateConnection(conns, uuid,
        [conns[uuid] EXCEPT !.flashProgress = (written * 100) \div total])

FlInit ==
    /\ PbIdle /\ SlIdle /\ WsIdle /\ RgIdle /\ RaIdle /\ HbIdle
    /\ outcome = NoOutcome
    /\ connections = [u \in FlUuids |-> createInitialEsp32State(u)]
    /\ serial = [u \in FlUuids |-> NoFlash]

\* handleFlashFirmware(uuid, assetsToFlash) up to its second await, lines
\* 308-324: without assets it returns at once (line 310), else it
\* disconnects, sets isFlashing and calls esploader.main()
FlStart(uuid) ==
    /\ serial[uuid].call \in {"none", "returned"}
    /\ \E assets \in 0..MaxAssets :
          IF assets = 0
          THEN /\ serial' = [serial EXCEPT ![uuid] = [call |-> "returned", set |-> FALSE]]
               /\ UNCHANGED connections
          ELSE /\ serial' = [serial EXCEPT ![uuid] = [call |-> "main", set |-> TRUE]]
               /\ connections' = flashBegins(serialDisconnect(connections, uuid), uuid)
    /\ UNCHANGED <<pbVars, slVars, wsVars, rgVars, raVars, hbVars, outcome>>

\* lines 320-322: esploader.main() settles; when it throws the inner catch
\* block logs and returns
FlMain(uuid) ==
    /\ serial[uuid].call = "main"
    /\ \E throws \in BOOLEAN :
          serial' = flashAt(uuid, IF throws THEN "returned" ELSE "files")
    /\ UNCHANGED connections
    /\ UNCHANGED <<pbVars, slVars, wsVars, rgVars, raVars, hbVars, outcome>>

\* lines 325-356: the blobs are read; a blob that cannot be read sends the
\* call to the outer catch block, else flashProgress is -1 and writeFlash
\* starts
FlFiles(uuid) ==
    /\ serial[uuid].call = "files"
    /\ \E throws \in BOOLEAN :
          IF throws
          THEN /\ serial' = flashAt(uuid, "returned")
               /\ connections' = flashFails(connections, uuid)
          ELSE /\ serial' = flashAt(uuid, "writeFlash")
               /\ connections' =
                      updateConnection(connections, uuid,
                          [connections[uuid] EXCEPT !.flashProgress = -1])
    /\ UNCHANGED <<pbVars, slVars, wsVars, rgVars, raVars, hbVars, outcome>>

\* lines 345-350: writeFlash reports that written of MaxFlashBlocks blocks
\* are on the device
FlProgress(uuid) ==
    /\ serial[uuid].call = "writeFlash"
    /\ \E written \in 1..MaxFlashBlocks :
          connections' = reportProgress(connections, uuid, written, MaxFlashBlocks)
    /\ UNCHANGED <<pbVars, slVars, wsVars, rgVars, raVars, hbVars, scVars>>

\* lines 353-359: writeFlash settles, an error it throws is logged and the
\* call goes on to esploader.after()
FlWriteFlash(uuid) ==
    /\ serial[uuid].call = "writeFlash"
    /\ serial' = flashAt(uuid, "after")
    /\ UNCHANGED connections
    /\ UNCHANGED <<pbVars, slVars, wsVars, rgVars, raVars, hbVars, outcome>>

\* line 359: esploader.after() settles; when it throws the outer catch
\* block runs
FlAfter(uuid) ==
    /\ serial[uuid].call = "after"
    /\ \E throws \in BOOLEAN :
          IF throws
          THEN /\ serial' = flashAt(uuid, "returned")
               /\ connections' = flashFails(connections, uuid)
          ELSE /\ serial' = flashAt(uuid, "disconnect")
               /\ UNCHANGED connections
    /\ UNCHANGED <<pbVars, slVars, wsVars, rgVars, raVars, hbVars, outcome>>

\* lines 360-371: transport.disconnect() settles; when it throws the port
\* is closed by hand, and when that throws too the outer catch block runs
FlDisconnect(uuid) ==
    /\ serial[uuid].call = "disconnect"
    /\ \E throws \in BOOLEAN, closeThrows \in BOOLEAN :
          connections' = IF throws /\ closeThrows
                         THEN flashFails(connections, uuid)
                         ELSE flashSucceeds(connections, uuid)
    /\ serial' = flashAt(uuid, "returned")
    /\ UNCHANGED <<pbVars, slVars, wsVars, rgVars, raVars, hbVars, outcome>>

FlNext ==
    \E u \in FlUuids :
        \/ FlStart(u) \/ FlMain(u) \/ FlFiles(u) \/ FlProgress(u)
        \/ FlWriteFlash(u) \/ FlAfter(u) \/ FlDisconnect(u)

FlSpec == FlInit /\ [][FlNext]_vars

\* C39: whenever handleFlashFirmware has returned after it set isFlashing,
\* isFlashing of the connection is false again, whichever step failed.
C39_FlashingFlagReleased ==
    \A u \in FlUuids :
        (serial[u].call = "returned" /\ serial[u].set)
        => ~connections[u].isFlashing

-----------------------------------------------------------------------------
(* The registry on its own: addConnection, removeConnection, appendLog *)

\* the uuids the application passes explicitly, and all uuids of a run
ExplicitUuids == {"d1", "d2"}
RegUuids == ExplicitUuids \cup {unnamed_device(n) : n \in 0..MaxRegistry}

\* the n-th line the application appends to a connection
AppLine(n) == LogLine(3, "app", <<>>, n)

\* appendLog called with the lines AppLine(lo) .. AppLine(hi) in turn: the
\* first half of the calls, then the rest on their result
RECURSIVE appendLogRange(_, _, _, _)
appendLogRange(conns, uuid, lo, hi) ==
    IF lo > hi THEN conns
    ELSE IF lo = hi THEN appendLog(conns, uuid, AppLine(lo))
    ELSE CHOOSE r \in {appendLogRange(half, uuid, (lo + hi) \div 2 + 1, hi) :
                          half \in {appendLogRange(conns, uuid, lo, (lo + hi) \div 2)}} :
             TRUE

\* MultiDeviceWhisperer() has been called: the registry is empty
RegInit ==
    /\ PbIdle /\ SlIdle /\ RaIdle /\ ScIdle /\ HbIdle
    /\ socks = <<>> /\ timers = <<>> /\ sockCap = 0
    /\ hist = [u \in Uuids |-> NoHist]
    /\ apiLeft = MaxRegOps
    /\ connections = [u \in RegUuids |-> NoConn]
    /\ appended = [u \in RegUuids |-> 0]
    /\ returned = NoReturn
    /\ refMap = NoRefMap

\* addConnection({uuid})
RegAdd(uuid) ==
    /\ apiLeft > 0
    /\ connections[uuid].present \/ size(connections) < MaxRegistry
    /\ connections' = addConnection(connections, uuid)
    /\ returned' = uuid
    /\ appended' = [appended EXCEPT ![uuid] = 0]
    /\ refMap' = [refMap EXCEPT !.order = mapSet(@, uuid)]
    /\ apiLeft' = apiLeft - 1
    /\ UNCHANGED <<socks, timers, sockCap, hist>>
    /\ UNCHANGED <<pbVars, slVars, raVars, scVars, hbVars>>

\* addConnection({}): the uuid is synthesized
RegAddUnnamed ==
    /\ apiLeft > 0
    /\ connections[synthesizedUuid(connections)].present
          \/ size(connections) < MaxRegistry
    /\ connections' = addConnection(connections, synthesizedUuid(connections))
    /\ returned' = synthesizedUuid(connections)
    /\ appended' = [appended EXCEPT ![synthesizedUuid(connections)] = 0]
    /\ refMap' = [refMap EXCEPT !.order = mapSet(@, synthesizedUuid(connections))]
    /\ apiLeft' = apiLeft - 1
    /\ UNCHANGED <<socks, timers, sockCap, hist>>
    /\ UNCHANGED <<pbVars, slVars, raVars, scVars, hbVars>>

\* removeConnection(uuid)
RegRemove(uuid) ==
    /\ apiLeft > 0
    /\ connections' = removeConnection(connections, uuid)
    /\ appended' = [appended EXCEPT ![uuid] = 0]
    /\ refMap' = [refMap EXCEPT !.order = mapDelete(@, uuid)]
    /\ apiLeft' = apiLeft - 1
    /\ UNCHANGED <<socks, timers, sockCap, hist, returned>>
    /\ UNCHANGED <<pbVars, slVars, raVars, scVars, hbVars>>

\* appendLog(uuid, line), called 1, SmallBurst or LogBurst times with the
\* next lines of the connection
RegAppendLog(uuid) ==
    /\ apiLeft > 0
    /\ \E n \in {1, SmallBurst, LogBurst} :
          /\ connections' = appendLogRange(connections, uuid,
                                           appended[uuid] + 1, appended[uuid] + n)
          /\ appended' = IF connections[uuid].present
                         THEN [appended EXCEPT ![uuid] = @ + n]
                         ELSE appended
    /\ refMap' = [refMap EXCEPT !.ran = connections[uuid].present]
    /\ apiLeft' = apiLeft - 1
    /\ UNCHANGED <<socks, timers, sockCap, hist, returned>>
    /\ UNCHANGED <<pbVars, slVars, raVars, scVars, hbVars>>

\* the names the application gives
Names == {"bench", "rig"}

\* updateConnectionName(uuid, name) -> updateConnection(uuid, updater):
\* lines 86-92, the updater runs only when the uuid is present
RegUpdateName(uuid) ==
    /\ apiLeft > 0
    /\ \E name \in Names :
          connections' = updateConnection(connections, uuid,
                                          withName(connections[uuid], name))
    /\ refMap' = IF connections[uuid].present
                 THEN [order |-> mapSet(refMap.order, uuid), ran |-> TRUE]
                 ELSE [refMap EXCEPT !.ran = FALSE]
    /\ apiLeft' = apiLeft - 1
    /\ UNCHANGED <<socks, timers, sockCap, hist, appended, returned>>
    /\ UNCHANGED <<pbVars, slVars, raVars, scVars, hbVars>>

RegNext ==
    \/ \E u \in ExplicitUuids : RegAdd(u)
    \/ RegAddUnnamed
    \/ \E u \in RegUuids : RegRemove(u) \/ RegAppendLog(u) \/ RegUpdateName(u)

RegSpec == RegInit /\ [][RegNext]_vars

-----------------------------------------------------------------------------
(* Properties of the registry *)

\* C11: after n appendLog calls on a connection its logs are the last
\* min(n, 200) appended lines, oldest first.
C11_LogRingContent ==
    \A u \in RegUuids :
        connections[u].present
        => LET n == appended[u]
               k == Min({n, LOG_KEEP + 1})
           IN  connections[u].logs = [i \in 1..k |-> AppLine(n - k + i)]

\* 250 lines were appended to a connection, which holds lines 51..250
C11_Witness ==
    \E u \in RegUuids :
        /\ connections[u].present /\ appended[u] = 250
        /\ Len(connections[u].logs) = 200
        /\ connections[u].logs[1] = AppLine(51)
        /\ connections[u].logs[200] = AppLine(250)

\* C12: addConnection with an explicit uuid that is present leaves the record
\* and the number of connections as they were and returns the uuid.
C12_IdempotentAdd ==
    [][\A u \in ExplicitUuids :
          (connections[u].present /\ RegAdd(u))
          => /\ connections'[u] = connections[u]
             /\ size(connections') = size(connections)
             /\ returned' = u]_vars

\* C13: the uuid synthesized for an addConnection without uuid is not in the
\* registry, so the call adds one connection and replaces none.
C13_UuidUnique ==
    [][RegAddUnnamed
          => /\ ~connections[returned'].present
             /\ size(connections') = size(connections) + 1]_vars

\* the record with the name field left out
Unnamed(c) == [f \in DOMAIN c \ {"name"} |-> c[f]]

-----------------------------------------------------------------------------
(* reconnectAll of the WebSocket transport, lines 242-254.  The hook has
   rendered since the registry last changed, so that base.connections at
   the call holds the connections of the registry. *)

RaUuids == {"d1", "d2"}

\* base.connections.map(c => c.uuid)
connectionIds(conns) == {u \in DOMAIN conns : conns[u].present}

\* the ids read from the registry again when a wait ends
reconnectTargetsLive(snapshot, conns) == connectionIds(conns)

\* the ids whose callbacks connectionIds.map started: those of the call
reconnectTargets(snapshot, conns) == snapshot

\* the synchronous part of the callbacks, lines 247-249: each runs
\* disconnect(c.uuid) up to its first await, then starts its 250 ms wait
RECURSIVE disconnectAll(_, _, _)
disconnectAll(conns, ss, ids) ==
    IF ids = {} THEN [conns |-> conns, socks |-> ss]
    ELSE LET u == CHOOSE x \in ids : TRUE
             r == disconnect(conns, ss, u)
         IN  disconnectAll(r.conns, r.socks, ids \ {u})

RaInit ==
    /\ PbIdle /\ SlIdle /\ RaIdle /\ ScIdle /\ HbIdle
    /\ appended = [u \in Uuids |-> 0] /\ returned = NoReturn
    /\ refMap = NoRefMap
    /\ connections \in {[u \in RaUuids |-> IF u \in live
                                          THEN createDefaultInitialDeviceState(u)
                                          ELSE NoConn] : live \in {{"d1"}, RaUuids}}
    /\ socks = <<>>
    /\ timers = <<>>
    /\ apiLeft = MaxRaApi /\ sockCap = MaxRaSocks
    /\ hist = [u \in RaUuids |-> NoHist]

\* the application calls reconnectAll()
ReconnectAll ==
    /\ apiLeft > 0 /\ ~reconn.active
    /\ LET ids == connectionIds(connections)
           r == disconnectAll(connections, socks, ids)
       IN  /\ connections' = r.conns
           /\ socks' = r.socks
           /\ reconn' = [active |-> TRUE, snapshot |-> ids, done |-> {}]
           /\ hist' = [u \in DOMAIN hist |->
                          IF u \in ids THEN [hist[u] EXCEPT !.disc = TRUE] ELSE hist[u]]
    /\ apiLeft' = apiLeft - 1
    /\ UNCHANGED <<timers, sockCap>>
    /\ UNCHANGED <<pbVars, slVars, rgVars, scVars, hbVars>>

\* a 250 ms wait of reconnectAll ends: connect(c.uuid), line 251
RaWait(uuid) ==
    /\ reconn.active
    /\ uuid \in reconnectTargets(reconn.snapshot, connections) \ reconn.done
    /\ Len(socks) < sockCap
    /\ \E throws \in BOOLEAN :
          LET r == connect(connections, socks, uuid, 0, throws)
          IN  connections' = r.conns /\ socks' = r.socks
    /\ reconn' = [reconn EXCEPT !.done = @ \cup {uuid}]
    /\ hist' = [hist EXCEPT ![uuid].manual = @ + 1, ![uuid].disc = FALSE]
    /\ UNCHANGED <<timers, apiLeft, sockCap>>
    /\ UNCHANGED <<pbVars, slVars, rgVars, scVars, hbVars>>

RaNext ==
    \/ ReconnectAll
    \/ \E u \in RaUuids : RaWait(u) \/ Connect(u)
                             \/ AddConnection(u) \/ RemoveConnection(u)
    \/ \E s \in SockIds : SockOpen(s) \/ SockClose(s)
    \/ TimerFire

RaSpec == RaInit /\ [][RaNext]_vars

SocksIn(ss, uuid) == SelectSeq(ss, LAMBDA k : k.uuid = uuid)

-----------------------------------------------------------------------------
(* LivenessMonitor: the health of a connection derived from touch(), with
   three one-shot timers relative to the last touch.  The clock now is the
   time of the last event, in ms; a timer is its deadline, NoTimer when it
   is not pending. *)

PING_INTERVAL == 25000
WARN_INTERVAL == 30000
FAIL_INTERVAL == 60000

\* the second touch of the escalation scenario
SecondTouch == 20000

NoTimer == -1

Marks == {SecondTouch, PING_INTERVAL, WARN_INTERVAL, FAIL_INTERVAL}

\* how long after the last event a touch may come
TouchGaps ==
    {0} \cup Marks
        \cup {p[1] - p[2] : p \in {q \in Marks \X Marks : q[2] < q[1]}}

Pending(w) == {w[k] : k \in DOMAIN w} \ {NoTimer}

\* touch() that leaves a pending fail timer alone
touchKeepsFailTimer(m, t) ==
    [m EXCEPT !.now = t,
              !.watchdog = [ping |-> t + PING_INTERVAL, warn |-> t + WARN_INTERVAL,
                            fail |-> IF m.watchdog.fail = NoTimer
                                     THEN t + FAIL_INTERVAL ELSE m.watchdog.fail],
              !.health = "Connected",
              !.touches = Append(@, t),
              !.changes = IF m.health = "Connected" THEN @
                          ELSE Append(@, [at |-> t, health |-> "Connected"])]

\* touch() at time t: the three timers are cancelled and restarted, the
\* connection has been heard from
touch(m, t) ==
    [m EXCEPT !.now = t,
              !.watchdog = [ping |-> t + PING_INTERVAL, warn |-> t + WARN_INTERVAL,
                            fail |-> t + FAIL_INTERVAL],
              !.health = "Connected",
              !.touches = Append(@, t),
              !.changes = IF m.health = "Connected" THEN @
                          ELSE Append(@, [at |-> t, health |-> "Connected"])]

\* the ping timer fires: the probe of the transport is invoked
pingFired(m) ==
    [m EXCEPT !.now = m.watchdog.ping, !.watchdog.ping = NoTimer,
              !.probes = Append(@, m.watchdog.ping)]

\* the warn timer fires: no touch since it was started
warnFired(m) ==
    [m EXCEPT !.now = m.watchdog.warn, !.watchdog.warn = NoTimer,
              !.health = "Degraded",
              !.changes = Append(@, [at |-> m.watchdog.warn, health |-> "Degraded"])]

\* the fail timer fires: no touch since it was started
failFired(m) ==
    [m EXCEPT !.now = m.watchdog.fail, !.watchdog.fail = NoTimer,
              !.health = "Disconnected",
              !.changes = Append(@, [at |-> m.watchdog.fail, health |-> "Disconnected"])]

HbInit ==
    /\ PbIdle /\ SlIdle /\ WsIdle /\ RgIdle /\ RaIdle /\ ScIdle
    /\ connections = [u \in Uuids |-> createDefaultInitialDeviceState(u)]
    /\ liveness = [running |-> TRUE, now |-> 0, health |-> "Connected",
                   watchdog |-> [ping |-> NoTimer, warn |-> NoTimer, fail |-> NoTimer],
                   touches |-> <<>>, probes |-> <<>>, changes |-> <<>>]

\* traffic or a keep-alive arrives, before any pending timer is due
HbTouch ==
    /\ Len(liveness.touches) < MaxTouches
    /\ \E g \in TouchGaps :
          /\ \A d \in Pending(liveness.watchdog) : liveness.now + g <= d
          /\ liveness' = touch(liveness, liveness.now + g)
    /\ UNCHANGED <<connections, pbVars, slVars, wsVars, rgVars, raVars, scVars>>

\* a pending timer that no other pending timer precedes is due
Due(k) ==
    /\ liveness.watchdog[k] # NoTimer
    /\ \A d \in Pending(liveness.watchdog) : liveness.watchdog[k] <= d

HbPing ==
    /\ Due("ping")
    /\ liveness' = pingFired(liveness)
    /\ UNCHANGED <<connections, pbVars, slVars, wsVars, rgVars, raVars, scVars>>

HbWarn ==
    /\ Due("warn")
    /\ liveness' = warnFired(liveness)
    /\ UNCHANGED <<connections, pbVars, slVars, wsVars, rgVars, raVars, scVars>>

HbFail ==
    /\ Due("fail")
    /\ liveness' = failFired(liveness)
    /\ UNCHANGED <<connections, pbVars, slVars, wsVars, rgVars, raVars, scVars>>

HbNext == HbTouch \/ HbPing \/ HbWarn \/ HbFail

HbSpec == HbInit /\ [][HbNext]_vars

\* what has happened by time now when the last touch was at t0 and nothing
\* had happened before it
Escalated(t0, now) ==
    [probes |-> IF now >= t0 + PING_INTERVAL THEN <<t0 + PING_INTERVAL>> ELSE <<>>,
     changes |->
        (IF now >= t0 + WARN_INTERVAL
         THEN <<[at |-> t0 + WARN_INTERVAL, health |-> "Degraded"]>> ELSE <<>>)
        \o (IF now >= t0 + FAIL_INTERVAL
            THEN <<[at |-> t0 + FAIL_INTERVAL, health |-> "Disconnected"]>> ELSE <<>>),
     health |-> IF now >= t0 + FAIL_INTERVAL THEN "Disconnected"
                ELSE IF now >= t0 + WARN_INTERVAL THEN "Degraded"
                ELSE "Connected"]

\* C20: after a touch at 0 and no other, the probe has fired once, at
\* 25000, health has become Degraded at 30000 and Disconnected at 60000, and
\* nothing else has happened; with a second touch at 20000 the same holds
\* 20000 later and nothing has happened before.
C20_HeartbeatEscalation ==
    \A t0 \in {0, SecondTouch} :
        liveness.touches = (IF t0 = 0 THEN <<0>> ELSE <<0, t0>>)
        => LET e == Escalated(t0, liveness.now)
           IN  /\ liveness.probes = e.probes
               /\ liveness.changes = e.changes
               /\ liveness.health = e.health

\* touched at 0 and at 20000, then left alone until the fail timer fired,
\* at 80000
C20_Witness ==
    /\ liveness.touches = <<0, SecondTouch>>
    /\ liveness.now = SecondTouch + FAIL_INTERVAL
    /\ liveness.health = "Disconnected"
    /\ liveness.probes = <<SecondTouch + PING_INTERVAL>>
====
